---- MODULE Spec2Model ----
(***************************************************************************)
(* anti-work: the agent's incremental git scanner (scanner.ts) with its    *)
(* persisted cursor state, and the collector's work-hour classifier and    *)
(* aggregator (workHour.ts, workTime.ts, routes/track.ts).                 *)
(***************************************************************************)
EXTENDS Integers, Sequences, FiniteSets, TLC

(***************************************************************************)
(* Bounds of the model                                                     *)
(***************************************************************************)
MaxCommits == 3      \* commit objects ever created in one repository
MaxPasses == 3       \* scan passes (runs of scanRepositories)
MaxLines == 2        \* insertions / deletions of a working-tree diff
MaxDiffPasses == 2   \* scan passes while the working tree is edited
TickHours == 13      \* hours the clock advances in one step
MaxTime == 39        \* last clock value, in hours

(***************************************************************************)
(* Program constants                                                       *)
(***************************************************************************)
FirstScanWindowHours == 1
StaleWindowHours == 24

(***************************************************************************)
(* The file system the agent watches.  A path is a sequence of segments.   *)
(***************************************************************************)
\* the directories with a .git entry on the disk, and config.watchPaths as
\* the server sets it for the developer of w/a
GitRepos == { <<"w", "a">>, <<"w", "b">>, <<"v", "c">> }
WatchPaths == << <<"w", "a">> >>
Repos == GitRepos

VARIABLES
  history,      \* repo -> commits reachable from HEAD, oldest first
  nextHash,     \* repo -> next fresh commit hash
  worktree,     \* repo -> output of `git diff HEAD --stat`
  now,          \* wall clock, hours
  watchPaths,   \* config.watchPaths
  stateFile,    \* ~/.anti-work/scanner-state.json
  pc,           \* position of scanRepositories: "idle", "repo", "diff", "summary"
  state,        \* the ScannerState object of the running pass
  todo,         \* repositories the running pass has still to visit
  local,        \* currentDiffHash and lastStats of getUncommittedChanges
  allChanges,   \* allChanges of the running pass
  returned,     \* what the last completed pass returned, until the next pass starts
  passes,       \* number of passes started
  audit,        \* repo -> what the latest visit of the repo saw and did
  dirty,        \* repo -> history changed since the latest visit
  sumUnc,       \* repo -> sums over all uncommitted records emitted
  shrunk        \* repo -> an observed snapshot was smaller than the one before

VARIABLES
  userConfig,   \* the UserConfig row of the user, or none
  workHours,    \* table WorkHour: (userId, date, hour) -> row
  calls,        \* the updateWorkHour calls: arguments, locals, position
  statsResult,  \* the last result of calculateWorkTime
  lunchKeys,    \* keys of the buckets created under the lunch rule
  codeChanges   \* table CodeChange: the rows in the order of their ids

VARIABLES
  clsInput,     \* arguments of a call of isOvertimeHour
  clsOutput     \* its result

VARIABLES
  wtInput,      \* the argument of a call of calculateWorkTime
  wtOutput      \* its result

hourVars == <<userConfig, workHours, calls, statsResult, lunchKeys, codeChanges>>
clsVars == <<clsInput, clsOutput>>
VARIABLES
  runs,         \* the calls of runScan: position, ScannerState, records
  sent,         \* the latest request the agent sent to the collector, if any
  alive         \* the agent process is running

VARIABLES
  faults        \* the failures of the running pass: watch paths, repositories

VARIABLES
  users,        \* the User table of the server
  setupReqs,    \* the POST /api/auth/setup requests and where each one is
  flInput,      \* a statistics request: the JWT payload and ?userId=
  flOutput      \* the filter it was answered with and the rows it read

VARIABLES
  crash         \* the last pass that ended without saveState: what it had in
                \* memory and what was on the disk

VARIABLES
  otInput,      \* the arguments of a call of calculateOvertimeStats
  otOutput      \* its result

VARIABLES
  passedOver    \* the commits whose git show failed in a batch in which a
                \* later commit moved the cursor: all of them, and those
                \* since the last scan that fell back to the 24-hour window

VARIABLES
  activityQueue, \* activityQueue of the extension: activity ids, oldest first
  flushTimer,    \* the 5-second timer of queueActivity is pending
  flushes,       \* the invocations of flushActivities and their requests
  webRows,       \* table WebActivity: activity id -> number of rows
  acked,         \* the activities of the batches that were answered with 2xx
  queued         \* number of activities queued so far

VARIABLES
  lsInput,      \* the disk, and the arguments of saveState and of the return
  lsOutput      \* what loadState or the end of scanRepositories did

wtVars == <<wtInput, wtOutput>>
agentVars == <<runs, sent, alive>>
faultVars == <<faults>>
lsVars == <<lsInput, lsOutput>>
srvVars == <<users, setupReqs, flInput, flOutput>>
crashVars == <<crash>>
otVars == <<otInput, otOutput>>
skipVars == <<passedOver>>
extnVars == <<activityQueue, flushTimer, flushes, webRows, acked, queued>>
lastVars == <<skipVars, extnVars>>
moreVars == <<crashVars, otVars, lastVars>>
extVars == <<wtVars, agentVars, faultVars, lsVars, srvVars, moreVars>>
notScan == <<hourVars, clsVars, extVars>>

scanVars == <<history, nextHash, worktree, now, watchPaths, stateFile, pc, state, todo, local,
              allChanges, returned, passes, audit, dirty, sumUnc, shrunk>>

(***************************************************************************)
(* Helpers: JS objects used as maps (Record<string, T>)                    *)
(***************************************************************************)
Has(m, k) == k \in DOMAIN m
Put(m, k, v) == [x \in (DOMAIN m) \cup {k} |-> IF x = k THEN v ELSE m[x]]
Del(m, k) == [x \in (DOMAIN m) \ {k} |-> m[x]]
EmptyMap == [x \in {} |-> 0]
Max0(n) == IF n > 0 THEN n ELSE 0
Last(s) == s[Len(s)]

RECURSIVE Reverse(_)
Reverse(s) == IF s = <<>> THEN <<>> ELSE Append(Reverse(Tail(s)), Head(s))

basename(path) == Last(path)

EmptyState == [lastCommitHashes |-> EmptyMap, lastDiffHashes |-> EmptyMap,
               lastUncommittedStats |-> EmptyMap]

\* parsed.<map> || {}
MapOr(parsed, field) == IF Has(parsed, field) THEN parsed[field] ELSE EmptyMap

\* loadState, lines 51-55: the three maps of the parsed file (absent maps
\* become {})
loadState(file) == [lastCommitHashes |-> MapOr(file, "lastCommitHashes"),
                    lastDiffHashes |-> MapOr(file, "lastDiffHashes"),
                    lastUncommittedStats |-> MapOr(file, "lastUncommittedStats")]

(***************************************************************************)
(* Outputs of git                                                          *)
(***************************************************************************)
\* `git show <hash> --stat --format=`: no summary line (a commit that
\* changes no file), or "N files changed[, I insertions(+)][, D deletions(-)]";
\* -1 stands for an optional group that is absent.
EmptyShow == [matched |-> FALSE, files |-> -1, ins |-> -1, del |-> -1]
ShowOutputs == { EmptyShow, [matched |-> TRUE, files |-> 1, ins |-> 2, del |-> -1] }

\* `git diff HEAD --stat`: empty, or a text with its totals
EmptyDiff == [empty |-> TRUE, ins |-> 0, del |-> 0, files |-> 0]
DiffOutputs == { [empty |-> FALSE, ins |-> i, del |-> d, files |-> IF i + d > 1 THEN 2 ELSE 1] :
                   i \in 0..MaxLines, d \in 0..1 } \
               { [empty |-> FALSE, ins |-> 0, del |-> 0, files |-> 1] }

\* hashString: md5 of the text, first 16 hex digits; a digest of every part of
\* the text (no two texts of the model collide)
hashString(out) ==
  ((out.ins * 31 + out.del) * 31 + out.files) * 31 + 7

\* git.diffSummary(['HEAD'])
diffSummary(out) == [insertions |-> out.ins, deletions |-> out.del, files |-> out.files]

\* parseInt(group) || 0
ParseIntOr0(g) == IF g < 0 THEN 0 ELSE g

parseGitStats(out) ==
  IF out.matched
    THEN [filesChanged |-> ParseIntOr0(out.files), linesAdded |-> ParseIntOr0(out.ins),
          linesDeleted |-> ParseIntOr0(out.del)]
    ELSE [linesAdded |-> 0, linesDeleted |-> 0, filesChanged |-> 0]

BranchOf(r) == "main"

Hashes(r) == {history[r][i].hash : i \in 1..Len(history[r])}
\* git.show([lastHash, ...]) succeeds
Resolves(r, h) == h \in Hashes(r)

\* LogFrom with the range starting at h itself
RECURSIVE LogFromInclusive(_, _)
LogFromInclusive(hist, h) ==
  IF hist = <<>> THEN <<>>
  ELSE IF Last(hist).hash = h THEN <<Last(hist)>>
  ELSE <<Last(hist)>> \o LogFromInclusive(SubSeq(hist, 1, Len(hist) - 1), h)

\* git.log({from: h}): the commits after h, newest first
RECURSIVE LogFrom(_, _)
LogFrom(hist, h) ==
  IF hist = <<>> THEN <<>>
  ELSE IF Last(hist).hash = h THEN <<>>
  ELSE <<Last(hist)>> \o LogFrom(SubSeq(hist, 1, Len(hist) - 1), h)

\* git.log({'--since': t}): the commits not older than t, newest first
RECURSIVE LogSince(_, _)
LogSince(hist, t) ==
  IF hist = <<>> THEN <<>>
  ELSE IF Last(hist).time < t THEN <<>>
  ELSE <<Last(hist)>> \o LogSince(SubSeq(hist, 1, Len(hist) - 1), t)

(***************************************************************************)
(* getNewCommits                                                           *)
(***************************************************************************)
\* logOptions that asks for the whole history when there is no usable cursor
logOptionsWholeHistory(r, st) ==
  IF Has(st.lastCommitHashes, r) /\ Resolves(r, st.lastCommitHashes[r])
    THEN [kind |-> "from", arg |-> st.lastCommitHashes[r]]
    ELSE [kind |-> "since", arg |-> 0]

\* the git.log options chosen from the stored cursor
logOptions(r, st) ==
  IF Has(st.lastCommitHashes, r)
    THEN IF Resolves(r, st.lastCommitHashes[r])
           THEN [kind |-> "from", arg |-> st.lastCommitHashes[r]]
           ELSE [kind |-> "since", arg |-> now - StaleWindowHours]
    ELSE [kind |-> "since", arg |-> now - FirstScanWindowHours]

gitLog(r, opts) ==
  IF opts.kind = "from" THEN LogFrom(history[r], opts.arg)
                        ELSE LogSince(history[r], opts.arg)

CommittedChange(r, c, stats) ==
  [_repoPath |-> r, repoName |-> basename(r), branch |-> BranchOf(r),
   linesAdded |-> stats.linesAdded, linesDeleted |-> stats.linesDeleted,
   filesChanged |-> stats.filesChanged, isCommitted |-> TRUE, commitHash |-> c.hash]

\* ProcessCommits without the update of lastCommitHashes
RECURSIVE ProcessCommitsNoAdvance(_, _, _, _, _)
ProcessCommitsNoAdvance(commits, r, bad, changes, st) ==
  IF commits = <<>> THEN [changes |-> changes, state |-> st]
  ELSE LET c == Head(commits)
           stats == parseGitStats(c.show)
       IN IF c.hash \in bad
            THEN ProcessCommitsNoAdvance(Tail(commits), r, bad, changes, st)
            ELSE ProcessCommitsNoAdvance(Tail(commits), r, bad,
                   IF stats.filesChanged > 0
                     THEN Append(changes, CommittedChange(r, c, stats))
                     ELSE changes,
                   st)

\* ProcessCommits that moves the cursor only to a commit it reports
RECURSIVE ProcessCommitsAdvanceOnEmit(_, _, _, _, _)
ProcessCommitsAdvanceOnEmit(commits, r, bad, changes, st) ==
  IF commits = <<>> THEN [changes |-> changes, state |-> st]
  ELSE LET c == Head(commits)
           stats == parseGitStats(c.show)
       IN IF c.hash \in bad
            THEN ProcessCommitsAdvanceOnEmit(Tail(commits), r, bad, changes, st)
            ELSE IF stats.filesChanged > 0
              THEN ProcessCommitsAdvanceOnEmit(Tail(commits), r, bad,
                     Append(changes, CommittedChange(r, c, stats)),
                     [st EXCEPT !.lastCommitHashes = Put(@, r, c.hash)])
              ELSE ProcessCommitsAdvanceOnEmit(Tail(commits), r, bad, changes, st)

\* ProcessCommits that leaves the cursor where it is once a commit failed
RECURSIVE ProcessCommitsHoldAtFailure(_, _, _, _, _)
ProcessCommitsHoldAtFailure(commits, r, bad, changes, st) ==
  IF commits = <<>> THEN [changes |-> changes, state |-> st]
  ELSE LET c == Head(commits)
           stats == parseGitStats(c.show)
       IN IF c.hash \in bad
            THEN ProcessCommitsNoAdvance(Tail(commits), r, bad, changes, st)
            ELSE ProcessCommitsHoldAtFailure(Tail(commits), r, bad,
                   IF stats.filesChanged > 0
                     THEN Append(changes, CommittedChange(r, c, stats))
                     ELSE changes,
                   [st EXCEPT !.lastCommitHashes = Put(@, r, c.hash)])

\* the loop over the commits, oldest first; bad = the commits whose
\* `git show --stat` throws
RECURSIVE ProcessCommits(_, _, _, _, _)
ProcessCommits(commits, r, bad, changes, st) ==
  IF commits = <<>> THEN [changes |-> changes, state |-> st]
  ELSE LET c == Head(commits)
           stats == parseGitStats(c.show)
       IN IF c.hash \in bad
            THEN ProcessCommits(Tail(commits), r, bad, changes, st)
            ELSE ProcessCommits(Tail(commits), r, bad,
                   IF stats.filesChanged > 0
                     THEN Append(changes, CommittedChange(r, c, stats))
                     ELSE changes,
                   [st EXCEPT !.lastCommitHashes = Put(@, r, c.hash)])

getNewCommits(r, st, bad) ==
  ProcessCommits(Reverse(gitLog(r, logOptions(r, st))), r, bad, <<>>, st)

(***************************************************************************)
(* getUncommittedChanges                                                   *)
(***************************************************************************)
ZeroStats == [linesAdded |-> 0, linesDeleted |-> 0, filesChanged |-> 0]

\* LastStats that forgets the stored snapshot
LastStatsZero(r, st) == ZeroStats

LastStats(r, st) ==
  IF Has(st.lastUncommittedStats, r) THEN st.lastUncommittedStats[r] ELSE ZeroStats

CurrentStats(out) ==
  [linesAdded |-> diffSummary(out).insertions,
   linesDeleted |-> diffSummary(out).deletions,
   filesChanged |-> diffSummary(out).files]

\* Delta without the clamp at zero
DeltaSigned(cur, last) == cur - last

Delta(cur, last) == Max0(cur - last)

UncommittedChange(r, cur, last) ==
  [_repoPath |-> r, repoName |-> basename(r), branch |-> BranchOf(r),
   linesAdded |-> Delta(cur.linesAdded, last.linesAdded),
   linesDeleted |-> Delta(cur.linesDeleted, last.linesDeleted),
   filesChanged |-> Delta(cur.filesChanged, last.filesChanged),
   isCommitted |-> FALSE]

\* diffCheck that keeps the stored fingerprint and snapshot of an empty diff
diffCheckKeepsOnEmpty(r, st) ==
  LET diffOutput == worktree[r]
  IN IF diffOutput.empty
       THEN [done |-> TRUE, hash |-> 0, lastStats |-> LastStats(r, st), state |-> st]
     ELSE IF Has(st.lastDiffHashes, r) /\ hashString(diffOutput) = st.lastDiffHashes[r]
       THEN [done |-> TRUE, hash |-> hashString(diffOutput),
             lastStats |-> LastStats(r, st), state |-> st]
     ELSE [done |-> FALSE, hash |-> hashString(diffOutput),
           lastStats |-> LastStats(r, st), state |-> st]

\* diffCheck that empties the two maps when the diff of r is empty
diffCheckClearsAll(r, st) ==
  LET diffOutput == worktree[r]
  IN IF diffOutput.empty
       THEN [done |-> TRUE, hash |-> 0, lastStats |-> LastStats(r, st),
             state |-> [st EXCEPT !.lastDiffHashes = EmptyMap,
                                  !.lastUncommittedStats = EmptyMap]]
     ELSE IF Has(st.lastDiffHashes, r) /\ hashString(diffOutput) = st.lastDiffHashes[r]
       THEN [done |-> TRUE, hash |-> hashString(diffOutput),
             lastStats |-> LastStats(r, st), state |-> st]
     ELSE [done |-> FALSE, hash |-> hashString(diffOutput),
           lastStats |-> LastStats(r, st), state |-> st]

\* diffCheck without the comparison of the fingerprints
diffCheckNoCompare(r, st) ==
  LET diffOutput == worktree[r]
  IN IF diffOutput.empty
       THEN [done |-> TRUE, hash |-> 0, lastStats |-> LastStats(r, st),
             state |-> [st EXCEPT !.lastDiffHashes = Del(@, r),
                                  !.lastUncommittedStats = Del(@, r)]]
     ELSE [done |-> FALSE, hash |-> hashString(diffOutput),
           lastStats |-> LastStats(r, st), state |-> st]

\* lines 119-141: the diff text, the stored snapshot, the two early returns
\* (done) and the fingerprint of the text
diffCheck(r, st) ==
  LET diffOutput == worktree[r]
  IN IF diffOutput.empty
       THEN [done |-> TRUE, hash |-> 0, lastStats |-> LastStats(r, st),
             state |-> [st EXCEPT !.lastDiffHashes = Del(@, r),
                                  !.lastUncommittedStats = Del(@, r)]]
     ELSE IF Has(st.lastDiffHashes, r) /\ hashString(diffOutput) = st.lastDiffHashes[r]
       THEN [done |-> TRUE, hash |-> hashString(diffOutput),
             lastStats |-> LastStats(r, st), state |-> st]
     ELSE [done |-> FALSE, hash |-> hashString(diffOutput),
           lastStats |-> LastStats(r, st), state |-> st]

\* diffReport that stores the fingerprint and the snapshot only with a record
diffReportOnlyWhenEmitted(r, st, currentDiffHash, lastStats) ==
  LET currentStats == CurrentStats(worktree[r])
      change == UncommittedChange(r, currentStats, lastStats)
  IN IF change.linesAdded = 0 /\ change.linesDeleted = 0
       THEN [changes |-> <<>>, state |-> st]
       ELSE [changes |-> <<change>>,
             state |-> [st EXCEPT !.lastDiffHashes = Put(@, r, currentDiffHash),
                                  !.lastUncommittedStats = Put(@, r, currentStats)]]

\* diffReport that leaves the stored fingerprint and snapshot as they are
diffReportKeepsState(r, st, currentDiffHash, lastStats) ==
  LET currentStats == CurrentStats(worktree[r])
      change == UncommittedChange(r, currentStats, lastStats)
  IN [changes |-> IF change.linesAdded = 0 /\ change.linesDeleted = 0
                    THEN <<>> ELSE <<change>>,
      state |-> st]

\* lines 143-173: the totals of the diff as it is now, the deltas, the new
\* snapshot, and zero or one record (null / a record)
diffReport(r, st, currentDiffHash, lastStats) ==
  LET currentStats == CurrentStats(worktree[r])
      change == UncommittedChange(r, currentStats, lastStats)
  IN [changes |-> IF change.linesAdded = 0 /\ change.linesDeleted = 0
                    THEN <<>> ELSE <<change>>,
      state |-> [st EXCEPT !.lastDiffHashes = Put(@, r, currentDiffHash),
                           !.lastUncommittedStats = Put(@, r, currentStats)]]

(***************************************************************************)
(* scanRepositories                                                        *)
(***************************************************************************)
RECURSIVE SetToSeq(_)
SetToSeq(S) == IF S = {} THEN <<>>
               ELSE LET x == CHOOSE y \in S : TRUE IN <<x>> \o SetToSeq(S \ {x})

\* findGitRepos: the base path if it is a repository, then the repositories
\* one level below it
findGitRepos(basePath) ==
  LET own == IF basePath \in GitRepos THEN <<basePath>> ELSE <<>>
      below == {g \in GitRepos : Len(g) = Len(basePath) + 1
                                 /\ SubSeq(g, 1, Len(basePath)) = basePath}
  IN own \o SetToSeq(below \ {basePath})

RECURSIVE ReposOf(_)
ReposOf(paths) == IF paths = <<>> THEN <<>>
                  ELSE findGitRepos(Head(paths)) \o ReposOf(Tail(paths))

\* Strip that keeps every field
StripNothing(c) == c

\* the map at the end of scanRepositories: drop _repoPath
Strip(c) == [k \in (DOMAIN c) \ {"_repoPath"} |-> c[k]]
StripAll(cs) == [i \in 1..Len(cs) |-> Strip(cs[i])]

NoAudit == [seen |-> FALSE, resolved |-> FALSE, unchanged |-> FALSE, before |-> 0,
            committed |-> 0, sameHash |-> FALSE, reverted |-> FALSE, uncommitted |-> FALSE,
            records |-> 0, obs |-> ZeroStats, bad |-> {}]

NoLocal == [currentDiffHash |-> 0, lastStats |-> ZeroStats]

FirstCommit == [hash |-> 1, time |-> 0,
                show |-> [matched |-> TRUE, files |-> 1, ins |-> 2, del |-> -1]]

\* the repositories a pass over the watch paths visits
Watched(paths) == {r \in Repos : \E i \in 1..Len(ReposOf(paths)) : ReposOf(paths)[i] = r}

InitScan ==
  /\ watchPaths = WatchPaths
  /\ history \in [Repos -> { <<>>, <<FirstCommit>> }]
  /\ \A r \in Repos \ Watched(watchPaths) : history[r] = <<>>
  /\ nextHash = [r \in Repos |-> Len(history[r]) + 1]
  /\ worktree = [r \in Repos |-> EmptyDiff]
  /\ now = 0
  /\ stateFile = EmptyState
  /\ pc = "idle"
  /\ state = EmptyState
  /\ todo = <<>>
  /\ local = NoLocal
  /\ allChanges = <<>>
  /\ returned = <<>>
  /\ passes = 0
  /\ audit = [r \in Repos |-> NoAudit]
  /\ dirty = [r \in Repos |-> FALSE]
  /\ sumUnc = [r \in Repos |-> [linesAdded |-> 0, linesDeleted |-> 0]]
  /\ shrunk = [r \in Repos |-> [linesAdded |-> FALSE, linesDeleted |-> FALSE]]

scanFrame == UNCHANGED <<watchPaths, stateFile, pc, state, todo, local, allChanges, returned, passes,
                         audit, sumUnc, shrunk, notScan>>

\* the developer commits: a new commit on top of HEAD
Commit(r, out) ==
  /\ nextHash[r] <= MaxCommits
  /\ history' = [history EXCEPT ![r] = Append(@, [hash |-> nextHash[r], time |-> now, show |-> out])]
  /\ nextHash' = [nextHash EXCEPT ![r] = @ + 1]
  /\ dirty' = [dirty EXCEPT ![r] = TRUE]
  /\ UNCHANGED <<worktree, now>>
  /\ scanFrame

\* the developer rewrites HEAD (amend, rebase) and the old object is pruned
RewriteHead(r, out) ==
  /\ nextHash[r] <= MaxCommits
  /\ history[r] # <<>>
  /\ history' = [history EXCEPT ![r] =
                   Append(SubSeq(@, 1, Len(@) - 1),
                          [hash |-> nextHash[r], time |-> now, show |-> out])]
  /\ nextHash' = [nextHash EXCEPT ![r] = @ + 1]
  /\ dirty' = [dirty EXCEPT ![r] = TRUE]
  /\ UNCHANGED <<worktree, now>>
  /\ scanFrame

\* the developer edits the working tree
EditWorktree(r, out) ==
  /\ out # worktree[r]
  /\ worktree' = [worktree EXCEPT ![r] = out]
  /\ UNCHANGED <<history, nextHash, now, dirty>>
  /\ scanFrame

Tick ==
  /\ now + TickHours <= MaxTime
  /\ now' = now + TickHours
  /\ UNCHANGED <<history, nextHash, worktree, dirty>>
  /\ scanFrame

\* scanRepositories up to the first repository: loadState and the list of
\* repositories of the watch paths
ScanStart ==
  /\ pc = "idle"
  /\ passes < MaxPasses
  /\ pc' = "repo"
  /\ passes' = passes + 1
  /\ state' = loadState(stateFile)
  /\ todo' = ReposOf(watchPaths)
  /\ allChanges' = <<>>
  /\ returned' = <<>>
  /\ UNCHANGED <<watchPaths, history, nextHash, worktree, now, stateFile, local,
                 audit, dirty, sumUnc, shrunk>>
  /\ UNCHANGED notScan

ObservedStats(out) == IF out.empty THEN ZeroStats ELSE CurrentStats(out)

\* what the visit of r recorded about the working tree
DiffAudit(r, st, same, obs, emitted) ==
  [audit[r] EXCEPT
     !.sameHash = same,
     !.reverted = \/ obs.linesAdded < LastStats(r, st).linesAdded
                  \/ obs.linesDeleted < LastStats(r, st).linesDeleted
                  \/ obs.filesChanged < LastStats(r, st).filesChanged,
     !.uncommitted = emitted,
     !.records = IF emitted /\ @ < 2 THEN @ + 1 ELSE @,
     !.obs = obs]

Shrunk(r, obs) ==
  [linesAdded |-> shrunk[r].linesAdded \/ obs.linesAdded < audit[r].obs.linesAdded,
   linesDeleted |-> shrunk[r].linesDeleted \/ obs.linesDeleted < audit[r].obs.linesDeleted]

\* the loop over the repositories, first half: getNewCommits and
\* allChanges.push(...commits); bad = the commits whose `git show --stat` throws
VisitCommits(bad) ==
  /\ pc = "repo"
  /\ todo # <<>>
  /\ LET r == Head(todo)
         c == getNewCommits(r, state, bad)
     IN /\ allChanges' = allChanges \o c.changes
        /\ state' = c.state
        /\ audit' = [audit EXCEPT ![r] =
             [@ EXCEPT !.seen = TRUE,
                       !.resolved = Has(state.lastCommitHashes, r)
                                    /\ Resolves(r, state.lastCommitHashes[r]),
                       !.unchanged = audit[r].seen /\ ~dirty[r],
                       !.before = audit[r].committed,
                       !.committed = Len(c.changes),
                       !.bad = bad]]
        /\ dirty' = [dirty EXCEPT ![r] = FALSE]
  /\ pc' = "diff"
  /\ UNCHANGED <<watchPaths, history, nextHash, worktree, now, stateFile, todo, local, returned,
                 passes, sumUnc, shrunk>>

ScanCommits(bad) ==
  /\ VisitCommits(bad)
  /\ UNCHANGED notScan

\* getUncommittedChanges up to the fingerprint comparison
ScanDiff ==
  /\ pc = "diff"
  /\ LET r == Head(todo)
         d == diffCheck(r, state)
     IN /\ state' = d.state
        /\ IF d.done
             THEN /\ pc' = "repo"
                  /\ local' = NoLocal
                  /\ todo' = Tail(todo)
                  /\ audit' = [audit EXCEPT ![r] =
                       DiffAudit(r, state, ~worktree[r].empty,
                                 ObservedStats(worktree[r]), FALSE)]
                  /\ shrunk' = [shrunk EXCEPT ![r] = Shrunk(r, ObservedStats(worktree[r]))]
             ELSE /\ pc' = "summary"
                  /\ local' = [currentDiffHash |-> d.hash, lastStats |-> d.lastStats]
                  /\ UNCHANGED <<todo, audit, shrunk>>
  /\ UNCHANGED <<watchPaths, history, nextHash, worktree, now, stateFile, allChanges, returned,
                 passes, dirty, sumUnc>>
  /\ UNCHANGED notScan

\* getUncommittedChanges from git.diffSummary on, and allChanges.push(uncommitted)
ScanSummary ==
  /\ pc = "summary"
  /\ LET r == Head(todo)
         u == diffReport(r, state, local.currentDiffHash, local.lastStats)
         obs == CurrentStats(worktree[r])
     IN /\ allChanges' = allChanges \o u.changes
        /\ state' = u.state
        /\ audit' = [audit EXCEPT ![r] = DiffAudit(r, state, FALSE, obs, u.changes # <<>>)]
        /\ sumUnc' = [sumUnc EXCEPT ![r] =
             IF u.changes = <<>> THEN @
             ELSE [linesAdded |-> @.linesAdded + u.changes[1].linesAdded,
                   linesDeleted |-> @.linesDeleted + u.changes[1].linesDeleted]]
        /\ shrunk' = [shrunk EXCEPT ![r] = Shrunk(r, obs)]
  /\ pc' = "repo"
  /\ todo' = Tail(todo)
  /\ local' = NoLocal
  /\ UNCHANGED <<watchPaths, history, nextHash, worktree, now, stateFile, returned, passes, dirty>>
  /\ UNCHANGED notScan

\* the end of scanRepositories: saveState and the returned records
ScanEnd ==
  /\ pc = "repo"
  /\ todo = <<>>
  /\ stateFile' = state
  /\ returned' = StripAll(allChanges)
  /\ allChanges' = <<>>
  /\ pc' = "idle"
  /\ UNCHANGED <<watchPaths, history, nextHash, worktree, now, state, todo, local, passes,
                 audit, dirty, sumUnc, shrunk>>
  /\ UNCHANGED notScan

\* the developer's commits and the clock; the working tree stays clean, so
\* that getUncommittedChanges always returns at its first exit
NextCommits ==
  \/ \E r \in Watched(watchPaths), out \in ShowOutputs : Commit(r, out)
  \/ \E r \in Watched(watchPaths), out \in ShowOutputs : RewriteHead(r, out)
  \/ Tick
  \/ ScanStart
  \/ ScanCommits({})
  \/ ScanDiff
  \/ ScanEnd

\* the developer's edits of the working tree
NextDiff ==
  \/ \E r \in Watched(watchPaths), out \in DiffOutputs \cup {EmptyDiff} : EditWorktree(r, out)
  \/ passes < MaxDiffPasses /\ ScanStart
  \/ ScanCommits({})
  \/ ScanDiff
  \/ ScanSummary
  \/ ScanEnd

(***************************************************************************)
(* The collector: isOvertimeHour and updateWorkHour (services/workHour.ts) *)
(***************************************************************************)
MaxCalls == 2        \* calls of updateWorkHour ever started

UserId == 1

\* a time string "HH:MM" is the sequence of its characters
T(a, b, c, d) == <<a, b, ":", c, d>>

\* README, Configuration: the defaults of the UserConfig columns
DefaultRow == [workTimeStart |-> T("0","9","0","0"), workTimeEnd |-> T("1","8","0","0"),
               lunchStart |-> T("1","2","0","0"), lunchEnd |-> T("1","4","0","0")]

NoConfig == [present |-> FALSE, row |-> DefaultRow]

DigitValue(c) ==
  CASE c = "0" -> 0 [] c = "1" -> 1 [] c = "2" -> 2 [] c = "3" -> 3 [] c = "4" -> 4
    [] c = "5" -> 5 [] c = "6" -> 6 [] c = "7" -> 7 [] c = "8" -> 8 [] c = "9" -> 9

\* str.split(':')[0]
RECURSIVE BeforeColon(_)
BeforeColon(str) ==
  IF str = <<>> \/ Head(str) = ":" THEN <<>> ELSE <<Head(str)>> \o BeforeColon(Tail(str))

\* Number(digits)
RECURSIVE Number(_)
Number(digits) ==
  IF digits = <<>> THEN 0
  ELSE Number(SubSeq(digits, 1, Len(digits) - 1)) * 10 + DigitValue(Last(digits))

\* the hour with the minutes rounded to the nearest hour
firstNumberRounded(str) ==
  Number(BeforeColon(str)) + (IF DigitValue(str[Len(str) - 1]) >= 3 THEN 1 ELSE 0)

\* const [h] = str.split(':').map(Number)
firstNumber(str) == Number(BeforeColon(str))

\* a Date is a number of minutes of local time since 1970-01-01 00:00
DayOf(date) == date \div 1440
\* dayjs(date).hour()
HourOf(date) == (date \div 60) % 24
\* dayjs(date).day(): 0 = Sunday .. 6 = Saturday; 1970-01-01 was a Thursday
DayOfWeek(date) == (DayOf(date) + 4) % 7

\* userConfig?.field without `|| default`
ConfigFieldNoDefault(cfg, f, default) ==
  IF cfg.present THEN cfg.row[f] ELSE <<>>

\* userConfig?.field || default
ConfigField(cfg, f, default) ==
  IF cfg.present /\ cfg.row[f] # <<>> THEN cfg.row[f] ELSE default

\* isOvertimeHour without the weekend rule
isOvertimeHourNoWeekend(cfg, date, hour) ==
  LET workTimeStart == ConfigField(cfg, "workTimeStart", T("0","9","0","0"))
      workTimeEnd == ConfigField(cfg, "workTimeEnd", T("1","8","0","0"))
      lunchStart == ConfigField(cfg, "lunchStart", T("1","2","0","0"))
      lunchEnd == ConfigField(cfg, "lunchEnd", T("1","4","0","0"))
  IN IF hour >= firstNumber(lunchStart) /\ hour < firstNumber(lunchEnd) THEN FALSE
     ELSE IF hour < firstNumber(workTimeStart) \/ hour >= firstNumber(workTimeEnd) THEN TRUE
     ELSE FALSE

isOvertimeHour(cfg, date, hour) ==
  LET workTimeStart == ConfigField(cfg, "workTimeStart", T("0","9","0","0"))
      workTimeEnd == ConfigField(cfg, "workTimeEnd", T("1","8","0","0"))
      lunchStart == ConfigField(cfg, "lunchStart", T("1","2","0","0"))
      lunchEnd == ConfigField(cfg, "lunchEnd", T("1","4","0","0"))
      dayOfWeek == DayOfWeek(date)
      startHour == firstNumber(workTimeStart)
      endHour == firstNumber(workTimeEnd)
      lunchStartHour == firstNumber(lunchStart)
      lunchEndHour == firstNumber(lunchEnd)
  IN IF dayOfWeek = 0 \/ dayOfWeek = 6 THEN TRUE
     ELSE IF hour >= lunchStartHour /\ hour < lunchEndHour THEN FALSE
     ELSE IF hour < startHour \/ hour >= endHour THEN TRUE
     ELSE FALSE

\* the lunch rule decides: a weekday hour inside the lunch window
LunchRule(cfg, date, hour) ==
  /\ DayOfWeek(date) \in 1..5
  /\ hour >= firstNumber(ConfigField(cfg, "lunchStart", T("1","2","0","0")))
  /\ hour < firstNumber(ConfigField(cfg, "lunchEnd", T("1","4","0","0")))

\* Monday 1970-01-05 13:30 and 13:05, Saturday 1970-01-03 10:00
Mon1330 == ((4 * 24) + 13) * 60 + 30
Mon1305 == ((4 * 24) + 13) * 60 + 5
Sat1000 == ((2 * 24) + 10) * 60
TimeStamps == {Mon1330, Mon1305, Sat1000}

\* bodies of PUT /api/config/me: the fields that are given
ConfigBodies ==
  { [f \in {"lunchStart", "lunchEnd", "workTimeEnd"} |->
       CASE f = "lunchStart" -> T("1","1","0","0")
         [] f = "lunchEnd" -> T("1","2","3","0")
         [] f = "workTimeEnd" -> T("1","3","0","0")] }

KeyOf(recordedAt) == <<UserId, DayOf(recordedAt), HourOf(recordedAt)>>

NoRow == [found |-> FALSE, codeChanges |-> 0, webActivities |-> 0]
FreeCall == [pc |-> "free", recordedAt |-> 0, type |-> "code", count |-> 0,
             isOvertime |-> FALSE, lunch |-> FALSE, existing |-> NoRow]
NoStats == [computed |-> FALSE, totalHours |-> 0, normalHours |-> 0, overtimeHours |-> 0,
            ordinary |-> 0, overtime |-> 0, lunch |-> 0]

HourIdle ==
  /\ userConfig = NoConfig
  /\ workHours = EmptyMap
  /\ calls = [i \in 1..MaxCalls |-> FreeCall]
  /\ statsResult = NoStats
  /\ lunchKeys = {}
  /\ codeChanges = <<>>

InitHour == HourIdle

Started == {i \in 1..MaxCalls : calls[i].pc # "free"}
NewCall(recordedAt, type, count) ==
  [FreeCall EXCEPT !.pc = "classify", !.recordedAt = recordedAt, !.type = type,
                   !.count = count]

hourFrame == UNCHANGED <<scanVars, clsVars, extVars, codeChanges>>

\* prisma.codeChange.create: a new row with the next id; the stored repoPath
\* is the reported repoName
CodeChangeRow(id, body, recordedAt) ==
  [id |-> id, userId |-> UserId, repoPath |-> body.repoName, repoName |-> body.repoName,
   branch |-> body.branch, linesAdded |-> body.linesAdded,
   linesDeleted |-> body.linesDeleted, filesChanged |-> body.filesChanged,
   isCommitted |-> body.isCommitted, commitHash |-> body.commitHash,
   recordedAt |-> recordedAt]

\* POST /api/track/code: prisma.codeChange.create, then
\* updateWorkHour(userId, recordedAt, 'code')
PostCode(body, recordedAt) ==
  /\ Cardinality(Started) < MaxCalls
  /\ codeChanges' = Append(codeChanges, CodeChangeRow(Len(codeChanges) + 1, body, recordedAt))
  /\ calls' = [calls EXCEPT ![Cardinality(Started) + 1] = NewCall(recordedAt, "code", 1)]
  /\ UNCHANGED <<userConfig, workHours, statsResult, lunchKeys>>
  /\ UNCHANGED <<scanVars, clsVars, extVars>>

\* POST /api/track/web: updateWorkHour(userId, recordedAt, 'web', count) unless
\* the event is a pageview
PostWeb(activity) ==
  /\ Cardinality(Started) < MaxCalls
  /\ activity.eventType # "pageview"
  /\ calls' = [calls EXCEPT ![Cardinality(Started) + 1] =
                 NewCall(activity.recordedAt, "web", activity.count)]
  /\ UNCHANGED <<userConfig, workHours, statsResult, lunchKeys>>
  /\ hourFrame

\* the activities of a batch that reach updateWorkHour
RECURSIVE Interactions(_)
Interactions(activities) ==
  IF activities = <<>> THEN <<>>
  ELSE IF Head(activities).eventType # "pageview"
         THEN <<Head(activities)>> \o Interactions(Tail(activities))
         ELSE Interactions(Tail(activities))

\* POST /api/track/web/batch: Promise.all starts one updateWorkHour per
\* interaction, and they run concurrently
PostWebBatch(activities) ==
  LET acts == Interactions(activities)
      n == Cardinality(Started)
  IN /\ acts # <<>>
     /\ n + Len(acts) <= MaxCalls
     /\ calls' = [i \in 1..MaxCalls |->
                    IF i > n /\ i <= n + Len(acts)
                      THEN NewCall(acts[i - n].recordedAt, "web", acts[i - n].count)
                      ELSE calls[i]]
     /\ UNCHANGED <<userConfig, workHours, statsResult, lunchKeys>>
     /\ hourFrame

\* updateWorkHour, line 51: await isOvertimeHour(userId, recordedAt, hour)
Classify(i) ==
  /\ calls[i].pc = "classify"
  /\ calls' = [calls EXCEPT ![i] =
       [@ EXCEPT !.pc = "find",
                 !.isOvertime = isOvertimeHour(userConfig, calls[i].recordedAt,
                                               HourOf(calls[i].recordedAt)),
                 !.lunch = LunchRule(userConfig, calls[i].recordedAt,
                                     HourOf(calls[i].recordedAt))]]
  /\ UNCHANGED <<userConfig, workHours, statsResult, lunchKeys>>
  /\ hourFrame

\* updateWorkHour, lines 53-55: await prisma.workHour.findUnique
Find(i) ==
  /\ calls[i].pc = "find"
  /\ LET key == KeyOf(calls[i].recordedAt)
     IN calls' = [calls EXCEPT ![i] =
          [@ EXCEPT !.pc = "write",
                    !.existing = IF Has(workHours, key)
                                   THEN [found |-> TRUE,
                                         codeChanges |-> workHours[key].codeChanges,
                                         webActivities |-> workHours[key].webActivities]
                                   ELSE NoRow]]
  /\ UNCHANGED <<userConfig, workHours, statsResult, lunchKeys>>
  /\ hourFrame

\* the data of prisma.workHour.update, with isOvertime written again
UpdatedRowReclassified(row, call) ==
  [row EXCEPT !.hasActivity = TRUE,
              !.codeChanges = IF call.type = "code" THEN call.existing.codeChanges + call.count
                                                    ELSE call.existing.codeChanges,
              !.webActivities = IF call.type = "web" THEN call.existing.webActivities + call.count
                                                     ELSE call.existing.webActivities,
              !.isOvertime = call.isOvertime]

\* the data of prisma.workHour.update (lines 58-65)
UpdatedRow(row, call) ==
  [row EXCEPT !.hasActivity = TRUE,
              !.codeChanges = IF call.type = "code" THEN call.existing.codeChanges + call.count
                                                    ELSE call.existing.codeChanges,
              !.webActivities = IF call.type = "web" THEN call.existing.webActivities + call.count
                                                     ELSE call.existing.webActivities]

\* the data of prisma.workHour.create (lines 67-77)
CreatedRow(call) ==
  [hasActivity |-> TRUE,
   codeChanges |-> IF call.type = "code" THEN call.count ELSE 0,
   webActivities |-> IF call.type = "web" THEN call.count ELSE 0,
   isOvertime |-> call.isOvertime]

\* updateWorkHour, lines 57-78: update the row that was found, or create one;
\* the create of a key that exists by now violates the unique index and throws
Write(i) ==
  /\ calls[i].pc = "write"
  /\ LET key == KeyOf(calls[i].recordedAt)
     IN IF calls[i].existing.found
          THEN /\ workHours' = [workHours EXCEPT ![key] = UpdatedRow(@, calls[i])]
               /\ calls' = [calls EXCEPT ![i].pc = "done"]
               /\ UNCHANGED lunchKeys
          ELSE IF Has(workHours, key)
            THEN /\ calls' = [calls EXCEPT ![i].pc = "failed"]
                 /\ UNCHANGED <<workHours, lunchKeys>>
            ELSE /\ workHours' = Put(workHours, key, CreatedRow(calls[i]))
                 /\ calls' = [calls EXCEPT ![i].pc = "done"]
                 /\ lunchKeys' = IF calls[i].lunch THEN lunchKeys \cup {key} ELSE lunchKeys
  /\ UNCHANGED <<userConfig, statsResult>>
  /\ hourFrame

\* PUT /api/config/me: upsert of the fields of the body
PutConfig(body) ==
  /\ userConfig' = [present |-> TRUE,
                    row |-> [f \in DOMAIN DefaultRow |->
                               IF f \in DOMAIN body THEN body[f] ELSE userConfig.row[f]]]
  /\ userConfig' # userConfig
  /\ UNCHANGED <<workHours, calls, statsResult, lunchKeys>>
  /\ hourFrame

(***************************************************************************)
(* calculateWorkTime (services/workTime.ts)                                *)
(***************************************************************************)
RECURSIVE Filter(_, _, _)
\* rows.filter(h => h[field] = value)
Filter(rows, field, value) ==
  IF rows = <<>> THEN <<>>
  ELSE IF Head(rows)[field] = value
         THEN <<Head(rows)>> \o Filter(Tail(rows), field, value)
         ELSE Filter(Tail(rows), field, value)

calculateWorkTimeEveryBucket(rows) ==
  LET totalHours == Len(rows)
      overtimeHours == Len(Filter(rows, "isOvertime", TRUE))
      normalHours == totalHours - overtimeHours
  IN [totalHours |-> totalHours, normalHours |-> normalHours, overtimeHours |-> overtimeHours]

calculateWorkTime(rows) ==
  LET activeHours == Filter(rows, "hasActivity", TRUE)
      totalHours == Len(activeHours)
      overtimeHours == Len(Filter(activeHours, "isOvertime", TRUE))
      normalHours == totalHours - overtimeHours
  IN [totalHours |-> totalHours, normalHours |-> normalHours, overtimeHours |-> overtimeHours]

\* prisma.workHour.findMany({where: {date}, orderBy: {hour: 'asc'}})
RECURSIVE RowsOf(_)
RowsOf(keys) ==
  IF keys = {} THEN <<>>
  ELSE LET first == CHOOSE k \in keys : \A j \in keys : k[3] <= j[3]
       IN <<workHours[first]>> \o RowsOf(keys \ {first})
findMany(day) == RowsOf({k \in DOMAIN workHours : k[2] = day})

\* GET /api/stats/today, the work-time part
GetStats(day) ==
  /\ LET keys == {k \in DOMAIN workHours : k[2] = day /\ workHours[k].hasActivity}
         t == calculateWorkTime(findMany(day))
     IN statsResult' =
          [computed |-> TRUE, totalHours |-> t.totalHours, normalHours |-> t.normalHours,
           overtimeHours |-> t.overtimeHours,
           ordinary |-> Cardinality({k \in keys : ~workHours[k].isOvertime /\ k \notin lunchKeys}),
           overtime |-> Cardinality({k \in keys : workHours[k].isOvertime}),
           lunch |-> Cardinality({k \in keys : ~workHours[k].isOvertime /\ k \in lunchKeys})]
  /\ statsResult' # statsResult
  /\ UNCHANGED <<userConfig, workHours, calls, lunchKeys>>
  /\ hourFrame

\* the reports of the model: commits on Monday 13:05 and on Saturday, clicks
\* and page views on Monday 13:30
CodeTimes == {Mon1305, Sat1000}
\* the bodies the agent sends: a commit of repository "a", and its
\* uncommitted changes (no commitHash: 0)
CodeBodies ==
  { [repoName |-> "a", branch |-> "main", linesAdded |-> 2, linesDeleted |-> 0,
     filesChanged |-> 1, isCommitted |-> TRUE, commitHash |-> 1],
    [repoName |-> "a", branch |-> "main", linesAdded |-> 1, linesDeleted |-> 0,
     filesChanged |-> 1, isCommitted |-> FALSE, commitHash |-> 0] }
Activities == [recordedAt : {Mon1330}, eventType : {"click"}, count : {1, 2}]
                \cup [recordedAt : {Mon1330}, eventType : {"pageview"}, count : {1}]
Batches == {<<a, b>> : a \in Activities, b \in Activities}

NextHour ==
  \/ \E body \in CodeBodies, t \in CodeTimes : PostCode(body, t)
  \/ \E a \in Activities : PostWeb(a)
  \/ \E b \in Batches : PostWebBatch(b)
  \/ \E i \in 1..MaxCalls : Classify(i)
  \/ \E i \in 1..MaxCalls : Find(i)
  \/ \E i \in 1..MaxCalls : Write(i)
  \/ \E body \in ConfigBodies : PutConfig(body)
  \/ \E t \in TimeStamps : GetStats(DayOf(t))

(***************************************************************************)
(* isOvertimeHour on its own                                               *)
(***************************************************************************)
ClockTimes == { T("0","9","0","0"), T("1","0","3","0"), T("1","8","0","0"), T("1","7","4","5"),
                T("1","2","0","0"), T("0","7","1","5"), T("1","9","3","0"), T("1","4","0","0"),
                T("2","0","1","0") }

ConfigRows ==
  { [workTimeStart |-> ws, workTimeEnd |-> we, lunchStart |-> ls, lunchEnd |-> le] :
      ws \in {T("0","9","0","0"), T("1","0","3","0")},
      we \in {T("1","8","0","0"), T("1","7","4","5")},
      ls \in {T("1","2","0","0"), T("0","7","1","5"), T("1","9","3","0")},
      le \in {T("1","4","0","0"), T("2","0","1","0")} }

Configs == {NoConfig} \cup {[present |-> TRUE, row |-> row] : row \in ConfigRows}

\* the days 1970-01-01 (Thursday) .. 1970-01-07 (Wednesday), at midnight
Dates == {d * 1440 : d \in 0..6}

NoOutput == [done |-> FALSE, value |-> FALSE]

ClsIdle ==
  /\ clsInput = [cfg |-> NoConfig, date |-> 0, hour |-> 0]
  /\ clsOutput = NoOutput

InitCls ==
  /\ clsInput \in [cfg : Configs, date : Dates, hour : 0..23]
  /\ clsOutput = NoOutput

CallIsOvertimeHour ==
  /\ ~clsOutput.done
  /\ clsOutput' = [done |-> TRUE,
                   value |-> isOvertimeHour(clsInput.cfg, clsInput.date, clsInput.hour)]
  /\ UNCHANGED <<clsInput, scanVars, hourVars, extVars>>

NextCls == CallIsOvertimeHour

(***************************************************************************)
(* calculateWorkTime on its own                                            *)
(***************************************************************************)
MaxBuckets == 3      \* buckets in the list given to calculateWorkTime

\* the two fields of a WorkHour row that calculateWorkTime reads
Buckets == [hasActivity : BOOLEAN, isOvertime : BOOLEAN]
BucketLists == UNION { [1..n -> Buckets] : n \in 0..MaxBuckets }

NoWorkTime == [done |-> FALSE, totalHours |-> 0, normalHours |-> 0, overtimeHours |-> 0]

WtIdle ==
  /\ wtInput = <<>>
  /\ wtOutput = NoWorkTime

InitWt ==
  /\ wtInput \in BucketLists
  /\ wtOutput = NoWorkTime

CallCalculateWorkTime ==
  /\ ~wtOutput.done
  /\ LET t == calculateWorkTime(wtInput)
     IN wtOutput' = [done |-> TRUE, totalHours |-> t.totalHours,
                     normalHours |-> t.normalHours, overtimeHours |-> t.overtimeHours]
  /\ UNCHANGED <<wtInput, scanVars, hourVars, clsVars, agentVars, faultVars, lsVars, srvVars,
                 moreVars>>

NextWt == CallCalculateWorkTime

(***************************************************************************)
(* scanRepositories with failing units                                     *)
(***************************************************************************)
MaxFaultyPasses == 2  \* scan passes with failing units

\* two watch paths: v with the repository c, then w with a and b
FaultyWatchPaths == << <<"v">>, <<"w">> >>

SecondCommit == [hash |-> 2, time |-> 0,
                 show |-> [matched |-> TRUE, files |-> 1, ins |-> 2, del |-> -1]]

NoFaults == [skipped |-> {}, failed |-> {}]

FaultIdle == faults = NoFaults

\* every watched repository has two commits of the last hour
InitFail ==
  /\ watchPaths = FaultyWatchPaths
  /\ history = [r \in Repos |-> <<FirstCommit, SecondCommit>>]
  /\ nextHash = [r \in Repos |-> Len(history[r]) + 1]
  /\ worktree = [r \in Repos |-> EmptyDiff]
  /\ now = 0
  /\ stateFile = EmptyState
  /\ pc = "idle"
  /\ state = EmptyState
  /\ todo = <<>>
  /\ local = NoLocal
  /\ allChanges = <<>>
  /\ returned = <<>>
  /\ passes = 0
  /\ audit = [r \in Repos |-> NoAudit]
  /\ dirty = [r \in Repos |-> FALSE]
  /\ sumUnc = [r \in Repos |-> [linesAdded |-> 0, linesDeleted |-> 0]]
  /\ shrunk = [r \in Repos |-> [linesAdded |-> FALSE, linesDeleted |-> FALSE]]
  /\ faults = NoFaults

\* the watch paths whose findGitRepos does not throw
RECURSIVE Healthy(_, _)
Healthy(paths, failing) ==
  IF paths = <<>> THEN <<>>
  ELSE IF Head(paths) \in failing THEN Healthy(Tail(paths), failing)
  ELSE <<Head(paths)>> \o Healthy(Tail(paths), failing)

faultFrame == UNCHANGED <<hourVars, clsVars, wtVars, agentVars, lsVars, srvVars, moreVars>>

\* ScanStart when findGitRepos throws for the watch paths in failing: the
\* outer catch of the loop goes on with the next watch path
ScanStartFailing(failing) ==
  /\ pc = "idle"
  /\ passes < MaxFaultyPasses
  /\ pc' = "repo"
  /\ passes' = passes + 1
  /\ state' = loadState(stateFile)
  /\ todo' = ReposOf(Healthy(watchPaths, failing))
  /\ allChanges' = <<>>
  /\ returned' = <<>>
  /\ faults' = [skipped |-> Watched(watchPaths) \ Watched(Healthy(watchPaths, failing)),
                failed |-> {}]
  /\ UNCHANGED <<watchPaths, history, nextHash, worktree, now, stateFile, local,
                 audit, dirty, sumUnc, shrunk>>
  /\ faultFrame

\* RepoFails when the exception leaves the loop over the repositories
RepoFailsLeavesLoop ==
  /\ pc = "repo"
  /\ todo # <<>>
  /\ todo' = <<>>
  /\ faults' = [faults EXCEPT !.failed = @ \cup {Head(todo)}]
  /\ UNCHANGED <<watchPaths, history, nextHash, worktree, now, stateFile, pc, state, local,
                 allChanges, returned, passes, audit, dirty, sumUnc, shrunk>>
  /\ faultFrame

\* simpleGit(repoPath) throws: the inner catch of the loop goes on with the
\* next repository
RepoFails ==
  /\ pc = "repo"
  /\ todo # <<>>
  /\ todo' = Tail(todo)
  /\ faults' = [faults EXCEPT !.failed = @ \cup {Head(todo)}]
  /\ UNCHANGED <<watchPaths, history, nextHash, worktree, now, stateFile, pc, state, local,
                 allChanges, returned, passes, audit, dirty, sumUnc, shrunk>>
  /\ faultFrame

\* git.revparse or git.log throws in getNewCommits: its catch returns the
\* empty list
ScanCommitsFails ==
  /\ pc = "repo"
  /\ todo # <<>>
  /\ pc' = "diff"
  /\ faults' = [faults EXCEPT !.failed = @ \cup {Head(todo)}]
  /\ UNCHANGED <<watchPaths, history, nextHash, worktree, now, stateFile, state, todo, local,
                 allChanges, returned, passes, audit, dirty, sumUnc, shrunk>>
  /\ faultFrame

\* git.revparse or git.diff throws in getUncommittedChanges: its catch
\* returns null
ScanDiffFails ==
  /\ pc = "diff"
  /\ pc' = "repo"
  /\ todo' = Tail(todo)
  /\ faults' = [faults EXCEPT !.failed = @ \cup {Head(todo)}]
  /\ UNCHANGED <<watchPaths, history, nextHash, worktree, now, stateFile, state, local,
                 allChanges, returned, passes, audit, dirty, sumUnc, shrunk>>
  /\ faultFrame

\* the commits git.log returns for the repository at the head of the list
LogHashes == IF pc = "repo" /\ todo # <<>>
               THEN LET log == gitLog(Head(todo), logOptions(Head(todo), state))
                    IN {log[i].hash : i \in 1..Len(log)}
               ELSE {}

NextFail ==
  \/ \E failing \in SUBSET {watchPaths[i] : i \in 1..Len(watchPaths)} :
       ScanStartFailing(failing)
  \/ RepoFails
  \/ ScanCommitsFails
  \/ \E bad \in SUBSET LogHashes : ScanCommits(bad)
  \/ ScanDiff
  \/ ScanDiffFails
  \/ ScanEnd

(***************************************************************************)
(* scanRepositories when the process dies before saveState                 *)
(***************************************************************************)
MaxCrashes == 1      \* passes that end without saveState
MaxCrashPasses == 2  \* passes started, the dying ones included
MaxCrashCommits == 2 \* commit objects in one repository

CrashWatchPaths == << <<"w">> >>

NoCrash == [count |-> 0, passes |-> 0, repo |-> <<>>, processed |-> 0, last |-> 0,
            file |-> EmptyState, mem |-> EmptyState]

CrashIdle == crash = NoCrash

\* the scanner over the two repositories below "w"
InitCrash ==
  /\ watchPaths = CrashWatchPaths
  /\ history \in [Repos -> { <<>>, <<FirstCommit>> }]
  /\ \A r \in Repos \ Watched(watchPaths) : history[r] = <<>>
  /\ nextHash = [r \in Repos |-> Len(history[r]) + 1]
  /\ worktree = [r \in Repos |-> EmptyDiff]
  /\ now = 0
  /\ stateFile = EmptyState
  /\ pc = "idle"
  /\ state = EmptyState
  /\ todo = <<>>
  /\ local = NoLocal
  /\ allChanges = <<>>
  /\ returned = <<>>
  /\ passes = 0
  /\ audit = [r \in Repos |-> NoAudit]
  /\ dirty = [r \in Repos |-> FALSE]
  /\ sumUnc = [r \in Repos |-> [linesAdded |-> 0, linesDeleted |-> 0]]
  /\ shrunk = [r \in Repos |-> [linesAdded |-> FALSE, linesDeleted |-> FALSE]]
  /\ crash = NoCrash

\* the state file after a pass that saved after every repository
SurvivesSaved(file, mem) == mem

\* the state file after a pass that did not reach line 323: the only
\* saveState of scanRepositories is the one after the loops
Survives(file, mem) == file

\* the process dies and is started again: the locals of scanRepositories are
\* gone; mem = the state object at that moment
Dies(r, k, lastHash, mem) ==
  /\ crash.count < MaxCrashes
  /\ crash' = [count |-> crash.count + 1, passes |-> passes, repo |-> r, processed |-> k,
               last |-> lastHash, file |-> stateFile, mem |-> mem]
  /\ stateFile' = Survives(stateFile, mem)
  /\ pc' = "idle"
  /\ state' = EmptyState
  /\ todo' = <<>>
  /\ local' = NoLocal
  /\ allChanges' = <<>>
  /\ returned' = <<>>
  /\ UNCHANGED <<watchPaths, history, nextHash, worktree, now, passes, audit, dirty, sumUnc,
                 shrunk>>
  /\ UNCHANGED <<hourVars, clsVars, wtVars, agentVars, faultVars, lsVars, srvVars, otVars,
                 lastVars>>

\* the pass is abandoned between two repositories, or after the last one
ScanAbandon ==
  /\ pc = "repo"
  /\ Dies(<<>>, 0, 0, state)

\* the process dies inside the loop of getNewCommits, after the k-th commit
\* of the batch
ScanCrash(k) ==
  /\ pc = "repo"
  /\ todo # <<>>
  /\ LET r == Head(todo)
         commits == Reverse(gitLog(r, logOptions(r, state)))
     IN /\ k \in 1..(Len(commits) - 1)
        /\ Dies(r, k, commits[k].hash,
                ProcessCommits(SubSeq(commits, 1, k), r, {}, <<>>, state).state)

NextCrash ==
  \/ \E r \in Watched(watchPaths), out \in ShowOutputs \ {EmptyShow} :
       nextHash[r] <= MaxCrashCommits /\ Commit(r, out)
  \/ passes < MaxCrashPasses /\ ScanStart
  \/ ScanCommits({})
  \/ ScanDiff
  \/ ScanEnd
  \/ ScanAbandon
  \/ \E k \in 1..MaxCommits : ScanCrash(k)

(***************************************************************************)
(* calculateOvertimeStats on its own (services/workTime.ts)                *)
(***************************************************************************)
MaxOtDay == 2        \* last day of the start and end dates and of the rows

\* the moments of a day the model draws start and end from: 00:00 and 12:00
OtMoments == { d * 1440 + m : d \in 0..MaxOtDay, m \in {0, 720} }

\* the rows of the call: none, or one overtime or ordinary bucket
OtRows == [date : 0..MaxOtDay, hour : {0, 23}, hasActivity : BOOLEAN, isOvertime : BOOLEAN]
OtRowLists ==
  {<<>>} \cup { <<row>> : row \in OtRows } \cup { <<a, b>> : a \in OtRows, b \in OtRows }

\* the first loop without `|| current.isSame(endDate, 'day')`
RECURSIVE InitDailyOvertimeBeforeOnly(_, _)
InitDailyOvertimeBeforeOnly(current, endDate) ==
  IF current < endDate
    THEN {DayOf(current)} \cup InitDailyOvertimeBeforeOnly(current + 1440, endDate)
    ELSE {}

\* lines 66-70: the keys the first loop sets to 0
RECURSIVE InitDailyOvertime(_, _)
InitDailyOvertime(current, endDate) ==
  IF current < endDate \/ DayOf(current) = DayOf(endDate)
    THEN {DayOf(current)} \cup InitDailyOvertime(current + 1440, endDate)
    ELSE {}

\* line 82 with `dayOfWeek === 0` only
isWeekendSundayOnly(dayOfWeek) == dayOfWeek = 0

\* line 82: dayOfWeek === 0 || dayOfWeek === 6
isWeekend(dayOfWeek) == dayOfWeek = 0 \/ dayOfWeek = 6

\* lines 78-96: one row added to the counters
CountRow(stats, wh) ==
  IF ~wh.hasActivity \/ ~wh.isOvertime THEN stats
  ELSE LET weekend == isWeekend(DayOfWeek(wh.date * 1440))
       IN [dailyOvertime |->
             IF Has(stats.dailyOvertime, wh.date)
               THEN [stats.dailyOvertime EXCEPT ![wh.date] = @ + 1]
               ELSE stats.dailyOvertime,
           overtimeByHour |->
             Put(stats.overtimeByHour, wh.hour,
                 IF Has(stats.overtimeByHour, wh.hour)
                   THEN stats.overtimeByHour[wh.hour] + 1 ELSE 1),
           weekdayOvertimeHours |-> stats.weekdayOvertimeHours + (IF weekend THEN 0 ELSE 1),
           weekendOvertimeHours |-> stats.weekendOvertimeHours + (IF weekend THEN 1 ELSE 0)]

RECURSIVE CountRows(_, _)
CountRows(stats, rows) ==
  IF rows = <<>> THEN stats ELSE CountRows(CountRow(stats, Head(rows)), Tail(rows))

calculateOvertimeStats(rows, startDate, endDate) ==
  LET zero == [dailyOvertime |-> [d \in InitDailyOvertime(startDate, endDate) |-> 0],
               overtimeByHour |-> [h \in 0..23 |-> 0],
               weekdayOvertimeHours |-> 0, weekendOvertimeHours |-> 0]
      stats == CountRows(zero, rows)
  IN [totalOvertimeHours |-> stats.weekdayOvertimeHours + stats.weekendOvertimeHours,
      weekdayOvertimeHours |-> stats.weekdayOvertimeHours,
      weekendOvertimeHours |-> stats.weekendOvertimeHours,
      dailyOvertime |-> stats.dailyOvertime,
      overtimeByHour |-> stats.overtimeByHour]

NoOtOutput == [done |-> FALSE,
               stats |-> [totalOvertimeHours |-> 0, weekdayOvertimeHours |-> 0,
                          weekendOvertimeHours |-> 0, dailyOvertime |-> EmptyMap,
                          overtimeByHour |-> EmptyMap]]

OtIdle ==
  /\ otInput = [rows |-> <<>>, startDate |-> 0, endDate |-> 0]
  /\ otOutput = NoOtOutput

InitOt ==
  /\ otInput \in [rows : OtRowLists, startDate : OtMoments, endDate : OtMoments]
  /\ otOutput = NoOtOutput

CallCalculateOvertimeStats ==
  /\ ~otOutput.done
  /\ otOutput' = [done |-> TRUE,
                  stats |-> calculateOvertimeStats(otInput.rows, otInput.startDate,
                                                   otInput.endDate)]
  /\ UNCHANGED <<otInput, crash, scanVars, hourVars, clsVars, wtVars, agentVars, faultVars,
                 lsVars, srvVars, lastVars>>

NextOt == CallCalculateOvertimeStats

(***************************************************************************)
(* getNewCommits when git show fails for some commits of a batch           *)
(***************************************************************************)
MaxSkipPasses == 3   \* scan passes with failing commits
MaxSkipCommits == 3  \* commit objects of the repository

SkipIdle == passedOver = [all |-> {}, live |-> {}]

\* the stored cursor of r does not resolve: lines 202-205
FallsBack(r, st) == Has(st.lastCommitHashes, r) /\ ~Resolves(r, st.lastCommitHashes[r])

\* the commits of a batch (oldest first) that fail before one that succeeds
PassedIn(batch, bad) ==
  {batch[i].hash : i \in {n \in 1..Len(batch) :
                            /\ batch[n].hash \in bad
                            /\ \E m \in (n + 1)..Len(batch) : batch[m].hash \notin bad}}

\* getNewCommits when `git show --stat` throws for the commits in bad
ScanSkipping(bad) ==
  /\ VisitCommits(bad)
  /\ LET passed == PassedIn(Reverse(gitLog(Head(todo), logOptions(Head(todo), state))), bad)
     IN passedOver' =
          [all |-> passedOver.all \cup passed,
           live |-> (IF FallsBack(Head(todo), state) THEN {} ELSE passedOver.live)
                    \cup passed]
  /\ UNCHANGED <<hourVars, clsVars, wtVars, agentVars, faultVars, lsVars, srvVars, crashVars,
                 otVars, extnVars>>

NextSkip ==
  \/ \E r \in Watched(watchPaths), out \in ShowOutputs \ {EmptyShow} :
       nextHash[r] <= MaxSkipCommits /\ Commit(r, out)
  \/ \E r \in Watched(watchPaths), out \in ShowOutputs \ {EmptyShow} :
       nextHash[r] <= MaxSkipCommits /\ RewriteHead(r, out)
  \/ passes < MaxSkipPasses /\ ScanStart
  \/ \E bad \in SUBSET LogHashes : ScanSkipping(bad)
  \/ ScanDiff
  \/ ScanEnd

(***************************************************************************)
(* The browser extension: queueActivity and flushActivities                *)
(* (extension/src/background.ts) and POST /web/batch (routes/track.ts)     *)
(***************************************************************************)
MaxFlushes == 2      \* invocations of flushActivities that pass line 94
MaxActivities == 3   \* activities ever queued
FlushThreshold == 2  \* line 172: 50, scaled to the number of activities
QueueLimit == 2      \* lines 125 and 132: 100, scaled to the number of activities

\* an invocation of flushActivities: "config" (await getConfig), "fetch"
\* (the request is out; created = the rows the server has created for it),
\* "done" (status = how it ended; its locals are gone)
FreeFlush == [pc |-> "free", activities |-> <<>>, created |-> {}, status |-> "none"]

Ended(status) == [FreeFlush EXCEPT !.pc = "done", !.status = status]

\* seq.slice(0, n)
Slice(seq, n) == SubSeq(seq, 1, IF Len(seq) < n THEN Len(seq) ELSE n)

ActivityIds(seq) == {seq[k] : k \in 1..Len(seq)}

\* the failed batch put behind the queue
RequeueBehind(activities, queue) == Slice(queue \o activities, QueueLimit)

\* lines 125 and 132: [...activities, ...activityQueue].slice(0, 100)
Requeue(activities, queue) == Slice(activities \o queue, QueueLimit)

\* the queue left as it is when the batch is taken
QueueAfterTakeKept(queue) == queue

\* line 108: activityQueue = []
QueueAfterTake(queue) == <<>>

BusyFlushes == {i \in 1..MaxFlushes : flushes[i].pc # "free"}

\* flushActivities up to `await getConfig()`: it returns at line 94 when the
\* queue is empty
BeginFlush(queue) ==
  IF queue = <<>> THEN flushes
  ELSE [flushes EXCEPT ![Cardinality(BusyFlushes) + 1] = [FreeFlush EXCEPT !.pc = "config"]]

CanBegin(queue) == queue = <<>> \/ Cardinality(BusyFlushes) < MaxFlushes

extnFrame == UNCHANGED <<scanVars, hourVars, clsVars, wtVars, agentVars, faultVars, lsVars,
                         srvVars, crashVars, otVars, skipVars>>

\* queueActivity for a tracked domain, lines 162-178: push, restart the
\* 5-second timer, and at the threshold clear it and call flushActivities
QueueActivity ==
  /\ queued < MaxActivities
  /\ LET queue == Append(activityQueue, queued + 1)
     IN /\ activityQueue' = queue
        /\ IF Len(queue) >= FlushThreshold
             THEN /\ CanBegin(queue)
                  /\ flushTimer' = FALSE
                  /\ flushes' = BeginFlush(queue)
             ELSE /\ flushTimer' = TRUE
                  /\ UNCHANGED flushes
  /\ queued' = queued + 1
  /\ UNCHANGED <<webRows, acked>>
  /\ extnFrame

\* the timer of line 169 fires: flushActivities
TimerFires ==
  /\ flushTimer
  /\ CanBegin(activityQueue)
  /\ flushTimer' = FALSE
  /\ flushes' = BeginFlush(activityQueue)
  /\ UNCHANGED <<activityQueue, webRows, acked, queued>>
  /\ extnFrame

\* setInterval(flushActivities, 30000), line 264, with something queued
IntervalFires ==
  /\ activityQueue # <<>>
  /\ CanBegin(activityQueue)
  /\ flushes' = BeginFlush(activityQueue)
  /\ UNCHANGED <<activityQueue, flushTimer, webRows, acked, queued>>
  /\ extnFrame

FlushConfigs == {"ok", "disabled", "nouuid"}

\* flushActivities after getConfig, lines 97-111: tracking disabled (the
\* queue is dropped), no UUID (return), or the queue becomes the batch of
\* the request
FlushTake(i, cfg) ==
  /\ flushes[i].pc = "config"
  /\ CASE cfg = "disabled" ->
            /\ activityQueue' = <<>>
            /\ flushes' = [flushes EXCEPT ![i] = Ended(cfg)]
       [] cfg = "nouuid" ->
            /\ UNCHANGED activityQueue
            /\ flushes' = [flushes EXCEPT ![i] = Ended(cfg)]
       [] cfg = "ok" ->
            /\ activityQueue' = QueueAfterTake(activityQueue)
            /\ flushes' = [flushes EXCEPT ![i] =
                             [@ EXCEPT !.pc = "fetch", !.activities = activityQueue]]
  /\ UNCHANGED <<flushTimer, webRows, acked, queued>>
  /\ extnFrame

\* POST /web/batch, one callback of the Promise.all of lines 252-277:
\* prisma.webActivity.create for one activity of the request
ServerCreate(i, a) ==
  /\ flushes[i].pc = "fetch"
  /\ a \in ActivityIds(flushes[i].activities) \ flushes[i].created
  /\ webRows' = Put(webRows, a, IF Has(webRows, a) THEN webRows[a] + 1 ELSE 1)
  /\ flushes' = [flushes EXCEPT ![i] = [@ EXCEPT !.created = @ \cup {a}]]
  /\ UNCHANGED <<activityQueue, flushTimer, acked, queued>>
  /\ extnFrame

\* how a request ends: "ok" (2xx: every callback resolved), "error" (another
\* status than 401 and 403: a callback rejected, whatever the others have
\* stored), "denied" (401 or 403 of uuidRequired, before the handler) or
\* "threw" (fetch rejected: the request or its response was lost)
FlushStatuses == {"ok", "error", "denied", "threw"}

\* flushActivities after the fetch, lines 120-133
FlushReturns(i, status) ==
  /\ flushes[i].pc = "fetch"
  /\ status = "ok" => flushes[i].created = ActivityIds(flushes[i].activities)
  /\ status = "denied" => flushes[i].created = {}
  /\ flushes' = [flushes EXCEPT ![i] = Ended(status)]
  /\ activityQueue' = IF status \in {"error", "threw"}
                        THEN Requeue(flushes[i].activities, activityQueue)
                        ELSE activityQueue
  /\ acked' = IF status = "ok" THEN acked \cup ActivityIds(flushes[i].activities) ELSE acked
  /\ UNCHANGED <<flushTimer, webRows, queued>>
  /\ extnFrame

NextExtn ==
  \/ QueueActivity
  \/ TimerFires
  \/ IntervalFires
  \/ \E i \in 1..MaxFlushes, cfg \in FlushConfigs : FlushTake(i, cfg)
  \/ \E i \in 1..MaxFlushes, a \in 1..MaxActivities : ServerCreate(i, a)
  \/ \E i \in 1..MaxFlushes, status \in FlushStatuses : FlushReturns(i, status)

ExtnIdle ==
  /\ activityQueue = <<>>
  /\ flushTimer = FALSE
  /\ flushes = [i \in 1..MaxFlushes |-> FreeFlush]
  /\ webRows = EmptyMap
  /\ acked = {}
  /\ queued = 0

LastIdle == SkipIdle /\ ExtnIdle

MoreIdle == CrashIdle /\ OtIdle /\ LastIdle

(***************************************************************************)
(* loadState and saveState on their own                                    *)
(***************************************************************************)
StateFields == {"lastCommitHashes", "lastDiffHashes", "lastUncommittedStats"}

\* a value for each map of a state file
SomeMaps ==
  [lastCommitHashes |-> (<<"w", "a">> :> 1),
   lastDiffHashes |-> (<<"w", "a">> :> 7),
   lastUncommittedStats |-> (<<"w", "a">> :> [linesAdded |-> 1, linesDeleted |-> 0,
                                              filesChanged |-> 1])]

\* the parsed files: any subset of the maps (the files of older versions)
ParsedFiles == { [f \in fields |-> SomeMaps[f]] : fields \in SUBSET StateFields }

\* STATE_FILE: missing, unreadable (readFileSync throws), unparsable
\* (JSON.parse throws), the JSON null, a JSON number, or an object
Disks ==
  { [kind |-> k, parsed |-> EmptyMap] :
      k \in {"missing", "unreadable", "unparsable", "null", "number"} }
  \cup { [kind |-> "object", parsed |-> file] : file \in ParsedFiles }

\* the body of the try of loadState: it throws, or returns, or falls through
loadStateTry(disk) ==
  IF disk.kind = "missing" THEN [threw |-> FALSE, returned |-> FALSE, value |-> EmptyState]
  ELSE IF disk.kind \in {"unreadable", "unparsable", "null"}
    THEN [threw |-> TRUE, returned |-> FALSE, value |-> EmptyState]
  ELSE [threw |-> FALSE, returned |-> TRUE, value |-> loadState(disk.parsed)]

\* loadState without its catch
loadStateFileNoCatch(disk) ==
  LET t == loadStateTry(disk)
  IN IF t.returned THEN [threw |-> FALSE, value |-> t.value]
     ELSE [threw |-> t.threw, value |-> EmptyState]

\* loadState, lines 45-61
loadStateFile(disk) ==
  LET t == loadStateTry(disk)
  IN IF t.returned THEN [threw |-> FALSE, value |-> t.value]
     ELSE [threw |-> FALSE, value |-> EmptyState]

\* saveState, lines 66-76: mkdirSync or writeFileSync throw when the place
\* is not writable, and the catch ignores it
saveState(disk, st, writable) ==
  [threw |-> FALSE,
   disk |-> IF writable THEN [kind |-> "object", parsed |-> st] ELSE disk]

\* the states and the records the end of scanRepositories is called with
SavedStates == {EmptyState, loadState(SomeMaps)}
GatheredRecords ==
  { <<>>,
    << [_repoPath |-> <<"w", "a">>, repoName |-> "a", branch |-> "main", linesAdded |-> 2,
        linesDeleted |-> 0, filesChanged |-> 1, isCommitted |-> TRUE, commitHash |-> 1] >> }

NoLsOutput == [op |-> "none", threw |-> FALSE, value |-> EmptyState,
               disk |-> [kind |-> "missing", parsed |-> EmptyMap], returned |-> <<>>]

LsIdle ==
  /\ lsInput = [disk |-> [kind |-> "missing", parsed |-> EmptyMap], state |-> EmptyState,
                allChanges |-> <<>>, writable |-> TRUE]
  /\ lsOutput = NoLsOutput

InitLs ==
  /\ lsInput \in [disk : Disks, state : SavedStates, allChanges : GatheredRecords,
                   writable : BOOLEAN]
  /\ lsOutput = NoLsOutput

lsFrame == UNCHANGED <<lsInput, scanVars, hourVars, clsVars, wtVars, agentVars, faultVars, srvVars,
                       moreVars>>

CallLoadState ==
  /\ lsOutput.op = "none"
  /\ LET l == loadStateFile(lsInput.disk)
     IN lsOutput' = [NoLsOutput EXCEPT !.op = "load", !.threw = l.threw, !.value = l.value,
                                       !.disk = lsInput.disk]
  /\ lsFrame

\* scanRepositories, lines 323-327: saveState(state) and the return
CallSaveState ==
  /\ lsOutput.op = "none"
  /\ LET w == saveState(lsInput.disk, lsInput.state, lsInput.writable)
     IN lsOutput' = [NoLsOutput EXCEPT !.op = "save", !.threw = w.threw, !.disk = w.disk,
                                       !.returned = IF w.threw THEN <<>>
                                                    ELSE StripAll(lsInput.allChanges)]
  /\ lsFrame

NextLs == CallLoadState \/ CallSaveState

(***************************************************************************)
(* The server: POST /api/auth/setup (routes/auth.ts)                       *)
(***************************************************************************)
MaxRequests == 3

\* the bodies of the requests; the empty username fails setupSchema
SetupBodies == [username : {"", "root", "boss"}]

NoRequest == [pc |-> "none", body |-> [username |-> ""], reply |-> 0]

SetupIdle ==
  /\ users = <<>>
  /\ setupReqs = [i \in 1..MaxRequests |-> NoRequest]

Admins(table) == {k \in 1..Len(table) : table[k].isAdmin}
UsersNamed(table, name) == {k \in 1..Len(table) : table[k].username = name}

\* setupSchema: username of 1 to 50 characters
setupSchemaAccepts(body) == body.username # ""

setupFrame == UNCHANGED <<flInput, flOutput, scanVars, hourVars, clsVars, wtVars,
                          agentVars, faultVars, lsVars, moreVars>>

\* a client sends POST /setup
SetupPost(i, body) ==
  /\ setupReqs[i].pc = "none"
  /\ IF i = 1 THEN TRUE ELSE setupReqs[i - 1].pc # "none"
  /\ setupReqs' = [setupReqs EXCEPT ![i] = [NoRequest EXCEPT !.pc = "findAdmin",
                                                              !.body = body]]
  /\ UNCHANGED users
  /\ setupFrame

\* await prisma.user.findFirst({ where: { isAdmin: true } }), the reply 400
\* when there is one, then setupSchema.parse
SetupFindAdmin(i) ==
  /\ setupReqs[i].pc = "findAdmin"
  /\ setupReqs' =
       [setupReqs EXCEPT ![i] =
          IF Admins(users) # {} \/ ~setupSchemaAccepts(@.body)
            THEN [@ EXCEPT !.pc = "done", !.reply = 400]
            ELSE [@ EXCEPT !.pc = "findUser"]]
  /\ UNCHANGED users
  /\ setupFrame

\* await prisma.user.findUnique({ where: { username } })
SetupFindUser(i) ==
  /\ setupReqs[i].pc = "findUser"
  /\ setupReqs' =
       [setupReqs EXCEPT ![i] =
          IF UsersNamed(users, @.body.username) # {}
            THEN [@ EXCEPT !.pc = "done", !.reply = 400]
            ELSE [@ EXCEPT !.pc = "create"]]
  /\ UNCHANGED users
  /\ setupFrame

\* await bcrypt.hash, await prisma.user.create: the unique username makes the
\* create throw, and the handler rethrows what is not a ZodError
SetupCreate(i) ==
  /\ setupReqs[i].pc = "create"
  /\ LET name == setupReqs[i].body.username
         taken == UsersNamed(users, name) # {}
     IN /\ users' = IF taken THEN users
                    ELSE Append(users, [id |-> Len(users) + 1, username |-> name,
                                        isAdmin |-> TRUE])
        /\ setupReqs' = [setupReqs EXCEPT ![i] =
                           [@ EXCEPT !.pc = "done",
                                     !.reply = IF taken THEN 500 ELSE 200]]
  /\ setupFrame

NextSetup ==
  \/ \E i \in 1..MaxRequests, body \in SetupBodies : SetupPost(i, body)
  \/ \E i \in 1..MaxRequests : SetupFindAdmin(i)
  \/ \E i \in 1..MaxRequests : SetupFindUser(i)
  \/ \E i \in 1..MaxRequests : SetupCreate(i)

(***************************************************************************)
(* The server: getUserIdFilter of the statistics routes (routes/stats.ts,  *)
(* and the same function of the repos routes in routes/users.ts)           *)
(***************************************************************************)
MaxUserId == 3
MaxQueryLen == 2

\* the characters of a ?userId= value
QueryChars == {"0", "1", "2", "x"}
QueryDigitValue == [c \in {"0", "1", "2"} |-> IF c = "0" THEN 0 ELSE IF c = "1" THEN 1 ELSE 2]

NoQuery == [present |-> FALSE, text |-> <<>>]
Queries ==
  {NoQuery} \cup
  { [present |-> TRUE, text |-> t] :
      t \in UNION { [1..n -> QueryChars] : n \in 0..MaxQueryLen } }

\* the leading digits of a string
RECURSIVE LeadingDigits(_)
LeadingDigits(text) ==
  IF text = <<>> \/ Head(text) \notin DOMAIN QueryDigitValue THEN <<>>
  ELSE <<Head(text)>> \o LeadingDigits(Tail(text))

RECURSIVE DecimalValue(_)
DecimalValue(digits) ==
  IF digits = <<>> THEN 0
  ELSE 10 * DecimalValue(SubSeq(digits, 1, Len(digits) - 1))
       + QueryDigitValue[digits[Len(digits)]]

Undefined == [kind |-> "undefined", n |-> 0]
NotANumber == [kind |-> "NaN", n |-> 0]
NumberValue(n) == [kind |-> "number", n |-> n]

\* parseInt of JavaScript on these strings
parseIntOf(text) ==
  IF LeadingDigits(text) = <<>> THEN NotANumber
  ELSE NumberValue(DecimalValue(LeadingDigits(text)))

\* the truthiness of JavaScript
Truthy(v) == v.kind = "number" /\ v.n # 0

\* the filter taken from the query whoever asks
getUserIdFilterFromQuery(user, query) ==
  IF query.present /\ query.text # <<>> THEN parseIntOf(query.text) ELSE Undefined

\* getUserIdFilter
getUserIdFilter(user, query) ==
  IF user.isAdmin
    THEN IF query.present /\ query.text # <<>> THEN parseIntOf(query.text) ELSE Undefined
    ELSE NumberValue(user.userId)

\* one row of every user in a table
StatRows == { [userId |-> u] : u \in 1..MaxUserId }

\* findMany({ where: { ..., ...whereUser } }) with
\* whereUser = userIdFilter ? { userId: userIdFilter } : {}
findManyStats(userIdFilter) ==
  IF Truthy(userIdFilter) THEN {row \in StatRows : row.userId = userIdFilter.n}
  ELSE StatRows

\* the payloads of the tokens the server signs: the ids of the User table
JwtPayloads == [userId : 1..MaxUserId, isAdmin : BOOLEAN]

NoFilterOutput == [done |-> FALSE, filter |-> Undefined, rows |-> {}]

FilterIdle ==
  /\ flInput = [user |-> [userId |-> 1, isAdmin |-> FALSE], query |-> NoQuery]
  /\ flOutput = NoFilterOutput

InitFilter ==
  /\ flInput \in [user : JwtPayloads, query : Queries]
  /\ flOutput = NoFilterOutput

\* a statistics route: getUserIdFilter, whereUser, findMany
GetStatistics ==
  /\ ~flOutput.done
  /\ LET f == getUserIdFilter(flInput.user, flInput.query)
     IN flOutput' = [done |-> TRUE, filter |-> f, rows |-> findManyStats(f)]
  /\ UNCHANGED <<flInput, users, setupReqs, scanVars, hourVars, clsVars, wtVars,
                 agentVars, faultVars, lsVars, moreVars>>

NextFilter == GetStatistics

SrvIdle == SetupIdle /\ FilterIdle

(***************************************************************************)
(* The agent: startAgent, the cron job and runScan (agent.ts)              *)
(***************************************************************************)
MaxRuns == 3         \* calls of runScan ever started
MaxAgentCommits == 2 \* commits made while the agent runs

\* a call of runScan: its position, the locals of scanRepositories (state,
\* todo, allChanges) and of runScan (results), what failed in it: "no",
\* "scan" (scanRepositories threw) or "upload" (failCount > 0), and the
\* hashes of the commits whose records scanRepositories returned to it
FreeRun == [pc |-> "free", state |-> EmptyState, todo |-> <<>>, allChanges |-> <<>>,
            results |-> <<>>, failed |-> "no", emitted |-> {}]

\* the commits of a list of records
CommitsOf(results) ==
  {results[k].commitHash : k \in {n \in 1..Len(results) : results[n].isCommitted}}

AgentIdle ==
  /\ runs = [i \in 1..MaxRuns |-> FreeRun]
  /\ sent = <<>>
  /\ alive = FALSE

StartedRuns == {i \in 1..MaxRuns : runs[i].pc # "free"}
\* a call of runScan whose scan or whose uploads failed
Failed(i) == runs[i].failed # "no"
\* the calls of runScan that are inside scanRepositories
Scanning == {i \in 1..MaxRuns : runs[i].pc = "scan"}

\* runScan without the check of lines 87-90
NewRunAlwaysScans ==
  [FreeRun EXCEPT !.pc = "scan", !.state = loadState(stateFile),
                  !.todo = ReposOf(watchPaths)]

\* runScan up to its return at line 89 (no watch paths) or up to the first
\* await of scanRepositories: getConfig, loadState and the watch paths
NewRun ==
  IF watchPaths = <<>>
    THEN [FreeRun EXCEPT !.pc = "done"]
    ELSE [FreeRun EXCEPT !.pc = "scan", !.state = loadState(stateFile),
                         !.todo = ReposOf(watchPaths)]

agentFrame == UNCHANGED <<history, nextHash, worktree, now, watchPaths, pc, state, todo, local,
                          allChanges, returned, passes, audit, dirty, sumUnc, shrunk,
                          hourVars, clsVars, wtVars, faultVars, lsVars, srvVars, moreVars>>

\* startAgent: `await runScan()` before the cron job is scheduled
StartAgent ==
  /\ ~alive
  /\ StartedRuns = {}
  /\ alive' = TRUE
  /\ runs' = [runs EXCEPT ![1] = NewRun]
  /\ UNCHANGED <<stateFile, sent>>
  /\ agentFrame

\* the cron job fires: `await runScan()`, whatever the earlier calls are doing;
\* the job exists once the first runScan of startAgent has returned
TimerTick ==
  /\ alive
  /\ runs[1].pc = "done"
  /\ Cardinality(StartedRuns) < MaxRuns
  /\ runs' = [runs EXCEPT ![Cardinality(StartedRuns) + 1] = NewRun]
  /\ UNCHANGED <<stateFile, sent, alive>>
  /\ agentFrame

\* getUncommittedChanges in one piece (the working tree is not edited
\* between git.diff and git.diffSummary)
getUncommittedChanges(r, st) ==
  LET d == diffCheck(r, st)
  IN IF d.done THEN [changes |-> <<>>, state |-> d.state]
     ELSE diffReport(r, st, d.hash, d.lastStats)

\* scanRepositories, one repository of the loop: getNewCommits, then
\* getUncommittedChanges
RunVisit(i) ==
  /\ alive
  /\ runs[i].pc = "scan"
  /\ runs[i].todo # <<>>
  /\ LET r == Head(runs[i].todo)
         c == getNewCommits(r, runs[i].state, {})
         u == getUncommittedChanges(r, c.state)
     IN runs' = [runs EXCEPT ![i] =
                   [@ EXCEPT !.state = u.state, !.todo = Tail(@),
                             !.allChanges = @ \o c.changes \o u.changes]]
  /\ UNCHANGED <<stateFile, sent, alive>>
  /\ agentFrame

\* runScan after scanRepositories returned or threw: with records the upload
\* loop follows, without there is nothing left to do
AfterScan(run, results, threw) ==
  [run EXCEPT !.pc = IF threw \/ results = <<>> THEN "done" ELSE "upload",
              !.results = IF threw THEN <<>> ELSE results,
              !.allChanges = <<>>, !.todo = <<>>, !.state = EmptyState,
              !.failed = IF threw THEN "scan" ELSE "no",
              !.emitted = IF threw THEN {} ELSE CommitsOf(results)]

\* the end of scanRepositories: saveState (written = the write succeeded) and
\* the records without _repoPath; back in runScan
RunScanEnd(i, written) ==
  /\ alive
  /\ runs[i].pc = "scan"
  /\ runs[i].todo = <<>>
  /\ stateFile' = IF written THEN runs[i].state ELSE stateFile
  /\ runs' = [runs EXCEPT ![i] = AfterScan(@, StripAll(@.allChanges), FALSE)]
  /\ UNCHANGED <<sent, alive>>
  /\ agentFrame

\* an exception leaves runScan uncaught: the promise of the cron callback
\* rejects and the process ends
runScanRethrows(threw) == ~threw

\* runScan, lines 93-143: every exception of the scan is caught and logged
runScanCatches(threw) == TRUE

\* scanRepositories throws (statSync of a watch path that disappeared after
\* existsSync); nothing is saved
RunScanThrows(i) ==
  /\ alive
  /\ runs[i].pc = "scan"
  /\ runs' = [runs EXCEPT ![i] = AfterScan(@, <<>>, TRUE)]
  /\ alive' = runScanCatches(TRUE)
  /\ UNCHANGED <<stateFile, sent>>
  /\ agentFrame

\* the request body of a record: the record and recordedAt
RequestBody(change) ==
  [k \in (DOMAIN change) \cup {"recordedAt"} |->
     IF k = "recordedAt" THEN now ELSE change[k]]

\* the upload loop, one record: outcome "ok" (response.ok), "rejected" (any
\* other status) or "threw" (fetch rejected: the request did not arrive)
RunUpload(i, outcome) ==
  /\ alive
  /\ runs[i].pc = "upload"
  /\ LET change == Head(runs[i].results)
         rest == Tail(runs[i].results)
     IN /\ sent' = IF outcome = "threw" THEN sent ELSE <<RequestBody(change)>>
        /\ runs' = [runs EXCEPT ![i] =
             [@ EXCEPT !.results = rest,
                       !.pc = IF rest = <<>> THEN "done" ELSE "upload",
                       !.failed = IF outcome = "ok" THEN @ ELSE "upload"]]
  /\ UNCHANGED <<stateFile, alive>>
  /\ agentFrame

UploadOutcomes == {"ok", "rejected", "threw"}

NextAgent ==
  \/ StartAgent
  \/ TimerTick
  \/ \E i \in 1..MaxRuns : RunVisit(i)
  \/ \E i \in 1..MaxRuns, written \in BOOLEAN : RunScanEnd(i, written)
  \/ \E i \in 1..MaxRuns : RunScanThrows(i)
  \/ \E i \in 1..MaxRuns, outcome \in UploadOutcomes : RunUpload(i, outcome)
  \/ \E r \in Watched(watchPaths), out \in ShowOutputs \ {EmptyShow} :
       nextHash[r] <= MaxAgentCommits /\ Commit(r, out)

(***************************************************************************)
(* scanRepositories over two repositories in either order                  *)
(***************************************************************************)
\* the orders in which glob can list the repositories below a watch path
Orderings(S) ==
  {order \in [1..Cardinality(S) -> S] :
     \A i, j \in 1..Cardinality(S) : order[i] = order[j] => i = j}

\* the working trees of this scanner: clean, or one inserted line
OrderDiffs == {EmptyDiff} \cup {out \in DiffOutputs : out.ins = 1 /\ out.del = 0}

\* scanRepositories up to the first repository, the repositories in the
\* order findGitRepos returned them
ScanStartIn(order) ==
  /\ pc = "idle"
  /\ passes < MaxCrashPasses
  /\ pc' = "repo"
  /\ passes' = passes + 1
  /\ state' = loadState(stateFile)
  /\ todo' = order
  /\ allChanges' = <<>>
  /\ returned' = <<>>
  /\ UNCHANGED <<watchPaths, history, nextHash, worktree, now, stateFile, local,
                 audit, dirty, sumUnc, shrunk>>
  /\ UNCHANGED notScan

\* lines 302-313 for one repository, in one piece
VisitRepo(r, st) ==
  LET c == getNewCommits(r, st, {})
      u == getUncommittedChanges(r, c.state)
  IN [changes |-> c.changes \o u.changes, state |-> u.state]

\* the loop of lines 295-317 over the repositories in the given order
RECURSIVE VisitAll(_, _, _)
VisitAll(order, changes, st) ==
  IF order = <<>> THEN [changes |-> changes, state |-> st]
  ELSE LET v == VisitRepo(Head(order), st)
       IN VisitAll(Tail(order), changes \o v.changes, v.state)

\* the developer commits once in a repository
NextOrder ==
  \/ \E r \in Watched(watchPaths), out \in ShowOutputs \ {EmptyShow} :
       history[r] = <<FirstCommit>> /\ Commit(r, out)
  \/ \E r \in Watched(watchPaths), out \in OrderDiffs : EditWorktree(r, out)
  \/ \E order \in Orderings(Watched(watchPaths)) : ScanStartIn(order)
  \/ ScanCommits({})
  \/ ScanDiff
  \/ ScanSummary
  \/ ScanEnd

(***************************************************************************)
(* scanRepositories when two watch paths lead to the same repository       *)
(***************************************************************************)
RECURSIVE CountIn(_, _)
CountIn(r, seq) == IF seq = <<>> THEN 0
                   ELSE (IF Head(seq) = r THEN 1 ELSE 0) + CountIn(r, Tail(seq))

\* config.watchPaths with a root and one of the repositories below it
TwiceWatchPaths == << <<"w">>, <<"w", "a">> >>

\* the repositories that more than one watch path leads to
ReachedTwice(paths) == {r \in Repos : CountIn(r, ReposOf(paths)) > 1}

\* the scanner over "w" and "w/a"; the other repository below "w" may be empty
InitTwice ==
  /\ watchPaths = TwiceWatchPaths
  /\ history \in [Repos -> { <<>>, <<FirstCommit>> }]
  /\ \A r \in ReachedTwice(watchPaths) : history[r] # <<>>
  /\ \A r \in Repos \ Watched(watchPaths) : history[r] = <<>>
  /\ worktree = [r \in Repos |-> EmptyDiff]
  /\ nextHash = [r \in Repos |-> Len(history[r]) + 1]
  /\ now = 0
  /\ stateFile = EmptyState
  /\ pc = "idle"
  /\ state = EmptyState
  /\ todo = <<>>
  /\ local = NoLocal
  /\ allChanges = <<>>
  /\ returned = <<>>
  /\ passes = 0
  /\ audit = [r \in Repos |-> NoAudit]
  /\ dirty = [r \in Repos |-> FALSE]
  /\ sumUnc = [r \in Repos |-> [linesAdded |-> 0, linesDeleted |-> 0]]
  /\ shrunk = [r \in Repos |-> [linesAdded |-> FALSE, linesDeleted |-> FALSE]]

\* the developer commits once and edits in the repository that both watch
\* paths lead to; the pass visits the repositories of every watch path in turn
NextTwice ==
  \/ \E r \in ReachedTwice(watchPaths), out \in ShowOutputs :
       history[r] = <<FirstCommit>> /\ Commit(r, out)
  \/ \E r \in ReachedTwice(watchPaths), out \in OrderDiffs : EditWorktree(r, out)
  \/ ScanStartIn(ReposOf(watchPaths))
  \/ ScanCommits({})
  \/ ScanDiff
  \/ ScanSummary
  \/ ScanEnd

(***************************************************************************)
(* The agent while the server changes its watch paths (config.ts)          *)
(***************************************************************************)
\* serverConfig.watchPaths || []: none, or the developer's repository
SyncedWatchPaths == { <<>>, WatchPaths }

\* a state file of an older version: lastCommitHashes only
OldStateFile == [lastCommitHashes |-> EmptyMap]

InitSync ==
  /\ watchPaths \in SyncedWatchPaths
  /\ history \in [Repos -> { <<>>, <<FirstCommit>> }]
  /\ \A r \in Repos \ Watched(WatchPaths) : history[r] = <<>>
  /\ nextHash = [r \in Repos |-> Len(history[r]) + 1]
  /\ worktree = [r \in Repos |-> EmptyDiff]
  /\ now = 0
  /\ stateFile \in {EmptyState, OldStateFile}
  /\ pc = "idle"
  /\ state = EmptyState
  /\ todo = <<>>
  /\ local = NoLocal
  /\ allChanges = <<>>
  /\ returned = <<>>
  /\ passes = 0
  /\ audit = [r \in Repos |-> NoAudit]
  /\ dirty = [r \in Repos |-> FALSE]
  /\ sumUnc = [r \in Repos |-> [linesAdded |-> 0, linesDeleted |-> 0]]
  /\ shrunk = [r \in Repos |-> [linesAdded |-> FALSE, linesDeleted |-> FALSE]]

\* syncConfigFromServer, lines 133-154: mergedConfig is replaced, the watch
\* paths are the server's
SyncConfig(paths) ==
  /\ alive
  /\ paths # watchPaths
  /\ watchPaths' = paths
  /\ UNCHANGED <<history, nextHash, worktree, now, stateFile, pc, state, todo, local,
                 allChanges, returned, passes, audit, dirty, sumUnc, shrunk,
                 hourVars, clsVars, extVars>>

NextSync ==
  \/ StartAgent
  \/ TimerTick
  \/ \E i \in 1..MaxRuns : RunVisit(i)
  \/ \E i \in 1..MaxRuns, written \in BOOLEAN : RunScanEnd(i, written)
  \/ \E i \in 1..MaxRuns : RunScanThrows(i)
  \/ \E i \in 1..MaxRuns, outcome \in UploadOutcomes : RunUpload(i, outcome)
  \/ \E r \in Watched(WatchPaths), out \in ShowOutputs \ {EmptyShow} :
       nextHash[r] <= MaxAgentCommits /\ Commit(r, out)
  \/ \E paths \in SyncedWatchPaths : SyncConfig(paths)

(***************************************************************************)
(* Specifications                                                          *)
(***************************************************************************)
ExtIdle ==
  /\ WtIdle
  /\ AgentIdle
  /\ FaultIdle
  /\ LsIdle
  /\ SrvIdle
  /\ MoreIdle

vars == <<scanVars, hourVars, clsVars, extVars>>

ScanIdle ==
  /\ InitScan
  /\ history = [r \in Repos |-> <<>>]

Init == InitScan /\ HourIdle /\ ClsIdle /\ ExtIdle

\* the scanner (git invocations succeed, the state file is writable) while the
\* developer commits
Spec == Init /\ [][NextCommits]_vars

\* `git diff HEAD` needs a HEAD: every repository has a commit
InitSpecDiff ==
  /\ InitScan
  /\ \A r \in Watched(watchPaths) : history[r] # <<>>
  /\ HourIdle
  /\ ClsIdle
  /\ ExtIdle

\* the scanner while the developer edits the working tree
SpecDiff == InitSpecDiff /\ [][NextDiff]_vars

InitSpecHour == ScanIdle /\ InitHour /\ ClsIdle /\ ExtIdle

\* the collector under concurrent reports
SpecHour == InitSpecHour /\ [][NextHour]_vars

\* the collector after one click of Monday 13:30 was reported and stored
InitBucket ==
  /\ userConfig = NoConfig
  /\ workHours = Put(EmptyMap, KeyOf(Mon1330),
                     CreatedRow([NewCall(Mon1330, "web", 1) EXCEPT
                                   !.isOvertime = isOvertimeHour(NoConfig, Mon1330,
                                                                 HourOf(Mon1330))]))
  /\ calls = [i \in 1..MaxCalls |-> FreeCall]
  /\ statsResult = NoStats
  /\ lunchKeys = {KeyOf(Mon1330)}
  /\ codeChanges = <<>>

InitSpecBucket == ScanIdle /\ InitBucket /\ ClsIdle /\ ExtIdle

\* the collector under concurrent reports for a bucket that exists
SpecBucket == InitSpecBucket /\ [][NextHour]_vars

InitSpecCls == ScanIdle /\ HourIdle /\ InitCls /\ ExtIdle

\* one call of isOvertimeHour for every configuration, day and hour
SpecCls == InitSpecCls /\ [][NextCls]_vars

InitSpecWt ==
  /\ ScanIdle /\ HourIdle /\ ClsIdle /\ InitWt /\ AgentIdle /\ FaultIdle /\ LsIdle /\ SrvIdle
  /\ MoreIdle

\* one call of calculateWorkTime for every list of buckets
SpecWt == InitSpecWt /\ [][NextWt]_vars

InitSpecFail ==
  /\ InitFail /\ HourIdle /\ ClsIdle /\ WtIdle /\ AgentIdle /\ LsIdle /\ SrvIdle
  /\ MoreIdle

\* the scanner over three repositories when git invocations fail
SpecFail == InitSpecFail /\ [][NextFail]_vars

InitSpecCrash ==
  /\ InitCrash /\ HourIdle /\ ClsIdle /\ WtIdle /\ AgentIdle /\ FaultIdle /\ LsIdle /\ SrvIdle
  /\ OtIdle /\ LastIdle

\* the scanner when passes end without saveState
SpecCrash == InitSpecCrash /\ [][NextCrash]_vars

InitSpecOrder ==
  /\ InitCrash
  /\ \A r \in Watched(watchPaths) : history[r] # <<>>
  /\ HourIdle /\ ClsIdle /\ WtIdle /\ AgentIdle /\ FaultIdle /\ LsIdle /\ SrvIdle /\ OtIdle
  /\ LastIdle

\* the scanner over two repositories that it visits in either order
SpecOrder == InitSpecOrder /\ [][NextOrder]_vars

\* the scanner over a root and a repository below it that is a watch path too
InitSpecTwice == InitTwice /\ HourIdle /\ ClsIdle /\ ExtIdle

SpecTwice == InitSpecTwice /\ [][NextTwice]_vars

\* the scanner over one repository when git show fails for some commits
\* and the developer commits and rewrites HEAD
SpecSkip == Init /\ [][NextSkip]_vars

\* the extension from its start, with its timers, and the collector
InitSpecExtn == ScanIdle /\ HourIdle /\ ClsIdle /\ ExtIdle

SpecExtn == InitSpecExtn /\ [][NextExtn]_vars

InitSpecOt ==
  /\ ScanIdle /\ HourIdle /\ ClsIdle /\ WtIdle /\ AgentIdle /\ FaultIdle /\ LsIdle /\ SrvIdle
  /\ CrashIdle
  /\ LastIdle
  /\ InitOt

\* one call of calculateOvertimeStats for every start, end and row
SpecOt == InitSpecOt /\ [][NextOt]_vars

InitSpecLs ==
  /\ ScanIdle /\ HourIdle /\ ClsIdle /\ WtIdle /\ AgentIdle /\ FaultIdle /\ InitLs /\ SrvIdle
  /\ MoreIdle

\* one call of loadState, or of saveState at the end of a pass, for every
\* content of the disk
SpecLs == InitSpecLs /\ [][NextLs]_vars

InitSpecSetup == ScanIdle /\ HourIdle /\ ClsIdle /\ ExtIdle

\* concurrent POST /api/auth/setup requests on a server without users
SpecSetup == InitSpecSetup /\ [][NextSetup]_vars

InitSpecFilter ==
  /\ ScanIdle /\ HourIdle /\ ClsIdle /\ WtIdle /\ AgentIdle /\ FaultIdle /\ LsIdle
  /\ SetupIdle
  /\ InitFilter
  /\ MoreIdle

\* one statistics request for every token and every ?userId=
SpecFilter == InitSpecFilter /\ [][NextFilter]_vars

\* the agent process, its timer and the developer's commits
SpecAgent == Init /\ [][NextAgent]_vars

InitSpecSync == InitSync /\ HourIdle /\ ClsIdle /\ ExtIdle

\* the agent process while the server empties and restores the watch paths
SpecSync == InitSpecSync /\ [][NextSync]_vars

(***************************************************************************)
(* Properties of the scanner                                               *)
(***************************************************************************)
\* the step that runs getNewCommits on r
IsCommitScan(r) == pc = "repo" /\ todo # <<>> /\ Head(todo) = r /\ pc' = "diff"
\* the step that runs the first part of getUncommittedChanges on r
IsDiffScan(r) == pc = "diff" /\ Head(todo) = r /\ pc' # "diff"
\* the step that runs the second part of getUncommittedChanges on r
IsSummaryScan(r) == pc = "summary" /\ Head(todo) = r /\ pc' = "repo"
\* the records the step appends to allChanges
EmittedNow == SubSeq(allChanges', Len(allChanges) + 1, Len(allChanges'))

\* C1: when a repository is scanned again and no commit was added to it since
\* the scan before, the second scan emits no committed record for it.
C1_RescanEmitsNoCommit ==
  \A r \in Repos : audit[r].seen /\ audit[r].unchanged => audit[r].committed = 0

\* the scan before emitted commits, the second scan of the same history none
C1_Witness ==
  \E r \in Repos : /\ audit[r].unchanged /\ audit[r].before > 0 /\ audit[r].committed = 0
                   /\ pc = "idle" /\ history[r] # <<>>

CursorResolves(r) ==
  /\ Has(state.lastCommitHashes, r)
  /\ \E i \in 1..Len(history[r]) : history[r][i].hash = state.lastCommitHashes[r]
CursorIndex(r) ==
  CHOOSE i \in 1..Len(history[r]) : history[r][i].hash = state.lastCommitHashes[r]
NewerCommits(r) == SubSeq(history[r], CursorIndex(r) + 1, Len(history[r]))
ChangesFile(c) == c.show.matched /\ c.show.files > 0
FileCommits(r) == SelectSeq(NewerCommits(r), ChangesFile)
EmitsExactlyFileCommits(r) ==
  /\ Len(EmittedNow) = Len(FileCommits(r))
  /\ \A i \in 1..Len(EmittedNow) :
       EmittedNow[i].isCommitted /\ EmittedNow[i].commitHash = FileCommits(r)[i].hash

\* C2 (as stated): with a cursor that resolves, a scan emits exactly the
\* commits after the cursor that change a file, oldest first, and the stored
\* cursor becomes the newest of the emitted commits.
C2_CursorIsNewestEmitted ==
  [][\A r \in Repos : IsCommitScan(r) /\ CursorResolves(r) =>
        /\ EmitsExactlyFileCommits(r)
        /\ (FileCommits(r) # <<>> =>
              state'.lastCommitHashes[r] = Last(FileCommits(r)).hash)]_vars

\* C2 (amended): with a cursor that resolves, a scan emits exactly the commits
\* after the cursor that change a file, oldest first, and the stored cursor
\* becomes the newest commit after the old cursor, whether or not that commit
\* changes a file (it stays when there is no newer commit).
C2_CursorIsNewestCommit ==
  [][\A r \in Repos : IsCommitScan(r) /\ CursorResolves(r) =>
        /\ EmitsExactlyFileCommits(r)
        /\ state'.lastCommitHashes[r] =
             IF NewerCommits(r) = <<>> THEN state.lastCommitHashes[r]
                                       ELSE Last(NewerCommits(r)).hash]_vars

\* a scan from a cursor that resolved emitted two commits and stored the newest
C2_Witness ==
  \E r \in Repos : /\ audit[r].resolved /\ audit[r].committed = 2 /\ pc = "diff"
                   /\ Len(history[r]) = 3
                   /\ state.lastCommitHashes[r] = Last(history[r]).hash

\* C4 (as stated): the sums of linesAdded and of linesDeleted over all
\* uncommitted records emitted so far never exceed the values of the snapshot
\* seen last.
C4_SumWithinFinalSnapshot ==
  \A r \in Repos : pc \in {"idle", "repo"} =>
     /\ sumUnc[r].linesAdded <= audit[r].obs.linesAdded
     /\ sumUnc[r].linesDeleted <= audit[r].obs.linesDeleted

\* C4 (amended): as long as no observed snapshot had fewer added (deleted)
\* lines than the one observed before it, an empty diff counting as zero, the
\* sum of linesAdded (linesDeleted) over all uncommitted records emitted so far
\* never exceeds the linesAdded (linesDeleted) of the snapshot seen last.
C4_SumWithinFinalSnapshotIfGrowing ==
  \A r \in Repos : pc \in {"idle", "repo"} =>
     /\ (~shrunk[r].linesAdded => sumUnc[r].linesAdded <= audit[r].obs.linesAdded)
     /\ (~shrunk[r].linesDeleted => sumUnc[r].linesDeleted <= audit[r].obs.linesDeleted)

\* two records were emitted for a growing diff and their sum is the last total
C4_Witness ==
  \E r \in Repos : /\ audit[r].records = 2 /\ ~shrunk[r].linesAdded
                   /\ sumUnc[r].linesAdded = MaxLines
                   /\ audit[r].obs.linesAdded = MaxLines

StoredStat(r, f) ==
  IF Has(state.lastUncommittedStats, r) THEN state.lastUncommittedStats[r][f] ELSE 0
ClampedDifference(a, b) == IF a - b > 0 THEN a - b ELSE 0

\* C5: every uncommitted record has linesAdded, linesDeleted and filesChanged
\* equal to max(0, current - stored), so none of them is negative.
C5_DeltaIsClampedDifference ==
  [][\A r \in Repos : IsSummaryScan(r) =>
        \A i \in 1..Len(EmittedNow) :
          /\ ~EmittedNow[i].isCommitted
          /\ EmittedNow[i].linesAdded =
               ClampedDifference(worktree[r].ins, StoredStat(r, "linesAdded"))
          /\ EmittedNow[i].linesDeleted =
               ClampedDifference(worktree[r].del, StoredStat(r, "linesDeleted"))
          /\ EmittedNow[i].filesChanged =
               ClampedDifference(worktree[r].files, StoredStat(r, "filesChanged"))
          /\ EmittedNow[i].linesAdded >= 0
          /\ EmittedNow[i].linesDeleted >= 0
          /\ EmittedNow[i].filesChanged >= 0]_vars

\* a record was emitted although one of the totals went down
C5_Witness ==
  \E r \in Repos : audit[r].uncommitted /\ audit[r].reverted /\ pc = "repo"

\* C6: when the fingerprint of the non-empty diff equals the stored one, the
\* visit emits no record and leaves the stored fingerprint and snapshot alone.
C6_SameFingerprintNoReport ==
  [][\A r \in Repos :
        (/\ IsDiffScan(r)
         /\ ~worktree[r].empty
         /\ Has(state.lastDiffHashes, r)
         /\ state.lastDiffHashes[r] = hashString(worktree[r])) =>
        /\ todo' = Tail(todo)
        /\ allChanges' = allChanges
        /\ state'.lastDiffHashes = state.lastDiffHashes
        /\ state'.lastUncommittedStats = state.lastUncommittedStats]_vars

\* a visit found the stored fingerprint and reported nothing
C6_Witness ==
  \E r \in Repos : /\ audit[r].sameHash /\ ~audit[r].uncommitted
                   /\ Has(state.lastDiffHashes, r) /\ pc = "repo"

(***************************************************************************)
(* Properties of the collector                                             *)
(***************************************************************************)
Finished == \A i \in Started : calls[i].pc \in {"done", "failed"}

RECURSIVE Reported(_, _, _)
\* the sum of the counts of the calls 1..n of the given key and type
Reported(n, key, type) ==
  IF n = 0 THEN 0
  ELSE Reported(n - 1, key, type)
       + (IF calls[n].pc # "free" /\ KeyOf(calls[n].recordedAt) = key /\ calls[n].type = type
            THEN calls[n].count ELSE 0)

ReportedKeys == {KeyOf(calls[i].recordedAt) : i \in Started}

\* C3: once all updateWorkHour calls have completed, every bucket holds the
\* sums of the counts of the code calls and of the web calls of its key.
C3_NoLostIncrement ==
  Finished =>
    \A key \in ReportedKeys :
      /\ Has(workHours, key)
      /\ workHours[key].codeChanges = Reported(MaxCalls, key, "code")
      /\ workHours[key].webActivities = Reported(MaxCalls, key, "web")

\* C7: no step changes the isOvertime of a bucket that exists.
C7_IsOvertimeFrozen ==
  [][\A key \in DOMAIN workHours :
        /\ key \in DOMAIN workHours'
        /\ workHours'[key].isOvertime = workHours[key].isOvertime]_vars

\* a call that classified its hour differently than the bucket has updated it
C7_Witness ==
  \E i \in Started :
    /\ calls[i].pc = "done"
    /\ calls[i].existing.found
    /\ calls[i].isOvertime # workHours[KeyOf(calls[i].recordedAt)].isOvertime
    /\ isOvertimeHour(userConfig, calls[i].recordedAt, HourOf(calls[i].recordedAt))
         # workHours[KeyOf(calls[i].recordedAt)].isOvertime

\* 1970-01-03 was a Saturday, 1970-01-04 a Sunday
Weekend == {2 * 1440, 3 * 1440}

\* C8: on a Saturday or Sunday isOvertimeHour returns true for every hour and
\* every configuration, and its result is always a boolean.
C8_WeekendIsOvertime ==
  clsOutput.done =>
    /\ clsOutput.value \in BOOLEAN
    /\ (clsInput.date \in Weekend => clsOutput.value = TRUE)

\* a Saturday hour inside the configured work window, and one inside the
\* lunch window, were classified as overtime
C8_Witness ==
  /\ clsOutput.done /\ clsOutput.value
  /\ clsInput.date = 2 * 1440
  /\ clsInput.cfg.present
  /\ clsInput.hour = 13

\* the hour component of "HH:MM"
HourPart(str) == DigitValue(str[1]) * 10 + DigitValue(str[2])
Configured(f) == IF clsInput.cfg.present THEN clsInput.cfg.row[f] ELSE DefaultRow[f]

\* C9: Monday to Friday the result is false inside [lunchStart, lunchEnd),
\* otherwise true outside [workStart, workEnd), otherwise false; the
\* boundaries are the hour components of the configured values.
C9_WeekdayRules ==
  clsOutput.done /\ clsInput.date \notin Weekend =>
    clsOutput.value =
      (IF /\ HourPart(Configured("lunchStart")) <= clsInput.hour
          /\ clsInput.hour < HourPart(Configured("lunchEnd"))
         THEN FALSE
         ELSE \/ clsInput.hour < HourPart(Configured("workTimeStart"))
              \/ clsInput.hour >= HourPart(Configured("workTimeEnd")))

\* 19h on a weekday, lunch 19:30-20:10, work until 17:45 or 18:00: not overtime
C9_Witness ==
  /\ clsOutput.done /\ ~clsOutput.value
  /\ clsInput.date \notin Weekend
  /\ clsInput.cfg.present
  /\ clsInput.cfg.row.lunchStart = T("1","9","3","0")
  /\ clsInput.cfg.row.lunchEnd = T("2","0","1","0")
  /\ clsInput.hour = 19

\* C10: a bucket with activity in a weekday lunch hour counts neither as a
\* normal nor as an overtime hour in the totals of calculateWorkTime.
C10_LunchHourIsNeutral ==
  statsResult.computed =>
    /\ statsResult.normalHours = statsResult.ordinary
    /\ statsResult.overtimeHours = statsResult.overtime

(***************************************************************************)
(* Properties of calculateWorkTime                                         *)
(***************************************************************************)
Active(rows) == {i \in 1..Len(rows) : rows[i].hasActivity}
ActiveOvertime(rows) == {i \in Active(rows) : rows[i].isOvertime}
\* the list without its buckets that have no activity
RECURSIVE WithoutInactive(_)
WithoutInactive(rows) ==
  IF rows = <<>> THEN <<>>
  ELSE IF Head(rows).hasActivity THEN <<Head(rows)>> \o WithoutInactive(Tail(rows))
  ELSE WithoutInactive(Tail(rows))

\* C11: for every list of buckets calculateWorkTime returns totalHours = the
\* number of buckets with hasActivity, overtimeHours = the number with
\* hasActivity and isOvertime, normalHours = totalHours - overtimeHours; the
\* three are non-negative, normalHours + overtimeHours = totalHours, and the
\* buckets without activity change none of them.
C11_CalculateWorkTime ==
  wtOutput.done =>
    /\ wtOutput.totalHours = Cardinality(Active(wtInput))
    /\ wtOutput.overtimeHours = Cardinality(ActiveOvertime(wtInput))
    /\ wtOutput.normalHours = wtOutput.totalHours - wtOutput.overtimeHours
    /\ wtOutput.normalHours + wtOutput.overtimeHours = wtOutput.totalHours
    /\ wtOutput.totalHours >= 0 /\ wtOutput.normalHours >= 0 /\ wtOutput.overtimeHours >= 0
    /\ calculateWorkTime(WithoutInactive(wtInput)) = calculateWorkTime(wtInput)

\* a list with an overtime bucket without activity, a normal and an overtime
\* bucket with activity
C11_Witness ==
  /\ wtOutput.done
  /\ wtOutput.normalHours = 1 /\ wtOutput.overtimeHours = 1
  /\ \E i \in 1..Len(wtInput) : ~wtInput[i].hasActivity /\ wtInput[i].isOvertime

(***************************************************************************)
(* Properties of the collector's code-change store                         *)
(***************************************************************************)
\* C12: however often the same committed ChangeRecord (same repository, same
\* commitHash) is reported to /code, one code-change row is stored for it.
C12_OneRowPerCommit ==
  \A i, j \in 1..Len(codeChanges) :
    /\ codeChanges[i].isCommitted /\ codeChanges[j].isCommitted
    /\ codeChanges[i].repoName = codeChanges[j].repoName
    /\ codeChanges[i].commitHash = codeChanges[j].commitHash
    => i = j

(***************************************************************************)
(* Properties of scanRepositories with failing units                       *)
(***************************************************************************)
\* the step that ends a pass
IsScanEnd == pc = "repo" /\ todo = <<>> /\ pc' = "idle"
\* the commits the pass had to process in r, oldest first: the log from the
\* cursor the pass loaded
PassLog(r) == Reverse(gitLog(r, logOptions(r, loadState(stateFile))))
NotBad(r, log) == SelectSeq(log, LAMBDA c : c.hash \notin audit[r].bad)
RecordsOf(r, records) == SelectSeq(records, LAMBDA x : x.repoName = basename(r))
\* the repositories of the pass in which and around which nothing failed
Sound == Watched(watchPaths) \ (faults.skipped \cup faults.failed)

\* C15: a failing commit, repository or watch path does not abort
\* scanRepositories: for every repository without a failure of its own the
\* pass returns the records of all its commits but the failing ones, in
\* order, and moves its cursor to the newest commit that did not fail; the
\* state is saved and every record gathered is returned.
C15_FailuresAreSkipped ==
  [][IsScanEnd =>
       /\ stateFile' = state
       /\ returned' = StripAll(allChanges)
       /\ \A r \in Sound :
            LET done == NotBad(r, PassLog(r))
                expected == SelectSeq(done, ChangesFile)
                got == RecordsOf(r, returned')
            IN /\ Len(got) = Len(expected)
               /\ \A i \in 1..Len(got) :
                    got[i].isCommitted /\ got[i].commitHash = expected[i].hash
               /\ IF done = <<>>
                    THEN Has(stateFile'.lastCommitHashes, r) = Has(stateFile.lastCommitHashes, r)
                    ELSE /\ Has(stateFile'.lastCommitHashes, r)
                         /\ stateFile'.lastCommitHashes[r] = Last(done).hash]_vars

\* a pass is over in which the first watch path failed, the first repository
\* of the second failed, and a commit of its second repository failed while
\* the other commit of that repository was returned
C15_Witness ==
  LET rs == ReposOf(<< <<"w">> >>)
  IN /\ pc = "idle" /\ passes > 0
     /\ faults.skipped = {<<"v", "c">>}
     /\ faults.failed = {rs[1]}
     /\ audit[rs[2]].bad # {}
     /\ RecordsOf(rs[2], returned) # <<>>
     /\ Has(stateFile.lastCommitHashes, rs[2])

(***************************************************************************)
(* Properties of the agent                                                 *)
(***************************************************************************)
\* C13: at most one scan pass (load state, process repositories, save state)
\* is in progress at any time: a timer tick during a running runScan starts
\* no overlapping pass.
C13_OnePassAtATime == Cardinality(Scanning) <= 1

\* the position in the history of r of the commit the state file names
PersistedPosition(r, file, hist) ==
  IF Has(file.lastCommitHashes, r) /\ \E i \in 1..Len(hist[r]) : hist[r][i].hash = file.lastCommitHashes[r]
    THEN CHOOSE i \in 1..Len(hist[r]) : hist[r][i].hash = file.lastCommitHashes[r]
    ELSE 0

\* C14: while the history of a repository only grows, the persisted
\* lastCommitHash of the repository never moves to an older commit than the
\* one persisted before.
C14_PersistedCursorMonotonic ==
  [][\A r \in Repos :
       PersistedPosition(r, stateFile', history') >= PersistedPosition(r, stateFile, history)]_vars

\* C16: after a scan pass or an upload has failed in runScan the polling loop
\* keeps running: the process is alive and, once the cron job is scheduled,
\* the next timer tick starts a new scan.
C16_LoopSurvivesFailure ==
  (\E i \in StartedRuns : Failed(i)) =>
    /\ alive
    /\ (runs[1].pc = "done" /\ Cardinality(StartedRuns) < MaxRuns => ENABLED TimerTick)

\* the scan of the first call threw, an upload of the second failed, and a
\* timer tick has started the scan of a third
C16_Witness ==
  /\ runs[1].failed = "scan"
  /\ runs[2].failed = "upload" /\ runs[2].pc = "done"
  /\ runs[3].pc = "scan"

\* the fields of RepoChange and of the request body
WireFields == {"repoName", "branch", "linesAdded", "linesDeleted", "filesChanged",
               "isCommitted", "commitHash", "recordedAt"}
\* no field of the record holds a path: the fields are those of RepoChange,
\* repoName is the last segment of a repository path, the branch is a branch
\* name and the others are numbers and booleans
PathFree(record) ==
  /\ DOMAIN record \subseteq WireFields
  /\ "_repoPath" \notin DOMAIN record
  /\ record.repoName \in {Last(r) : r \in Repos}
  /\ record.branch \in {BranchOf(r) : r \in Repos}
  /\ record.linesAdded \in Nat /\ record.linesDeleted \in Nat /\ record.filesChanged \in Nat
  /\ record.isCommitted \in BOOLEAN
  /\ ("commitHash" \in DOMAIN record => record.commitHash \in Nat)
  /\ ("recordedAt" \in DOMAIN record => record.recordedAt \in Nat)

\* C17: no record returned by scanRepositories and no request sent to the
\* collector carries the path of the repository: _repoPath is removed and
\* repoName is the basename of the path.
C17_NoPathLeavesTheScanner ==
  /\ \A i \in 1..MaxRuns : \A k \in 1..Len(runs[i].results) : PathFree(runs[i].results[k])
  /\ \A k \in 1..Len(sent) : PathFree(sent[k])

\* a record of repository w/a was returned and sent as a request
C17_Witness ==
  /\ sent # <<>> /\ sent[1].repoName = "a" /\ sent[1].isCommitted
  /\ \E i \in 1..MaxRuns : runs[i].results # <<>>

(***************************************************************************)
(* Properties of loadState and saveState                                   *)
(***************************************************************************)
\* C18: loadState never throws; it returns the empty state when there is no
\* state file or the file cannot be read or parsed, and otherwise the maps of
\* the file with every missing map replaced by an empty map. saveState never
\* throws; when the write fails the disk is as before and the pass still
\* returns its records.
C18_StateStoreNeverThrows ==
  /\ lsOutput.op = "load" =>
       /\ ~lsOutput.threw
       /\ DOMAIN lsOutput.value = StateFields
       /\ (lsInput.disk.kind \in {"missing", "unreadable", "unparsable"} =>
             lsOutput.value = EmptyState)
       /\ (lsInput.disk.kind = "object" =>
             \A f \in StateFields :
               lsOutput.value[f] = IF f \in DOMAIN lsInput.disk.parsed
                                     THEN lsInput.disk.parsed[f] ELSE EmptyMap)
  /\ lsOutput.op = "save" =>
       /\ ~lsOutput.threw
       /\ Len(lsOutput.returned) = Len(lsInput.allChanges)
       /\ (~lsInput.writable => lsOutput.disk = lsInput.disk)
       /\ (lsInput.writable => loadStateFile(lsOutput.disk).value = lsInput.state)

\* an unparsable file was loaded as the empty state
C18_Witness ==
  /\ lsOutput.op = "load" /\ lsInput.disk.kind = "unparsable"
  /\ lsOutput.value = EmptyState

(***************************************************************************)
(* Properties of the server's accounts                                     *)
(***************************************************************************)
\* C19: POST /api/auth/setup creates at most one admin account, however the
\* concurrent setup requests of an uninitialised system interleave.
C19_AtMostOneAdmin == Cardinality(Admins(users)) <= 1

\* C20: a statistics request of a non-admin is filtered to the userId of its
\* own token whatever ?userId= it carries, and reads only its own rows; a
\* request that reads another user's rows, or has no filter, is an admin's.
C20_NonAdminSeesOwnData ==
  flOutput.done =>
    /\ (~flInput.user.isAdmin =>
          /\ flOutput.filter = NumberValue(flInput.user.userId)
          /\ flOutput.rows = {row \in StatRows : row.userId = flInput.user.userId})
    /\ ((\E row \in flOutput.rows : row.userId # flInput.user.userId) =>
          flInput.user.isAdmin)

\* a non-admin asked for another user's id and read its own rows
C20_Witness ==
  /\ flOutput.done
  /\ ~flInput.user.isAdmin
  /\ flInput.query.present
  /\ Truthy(parseIntOf(flInput.query.text))
  /\ parseIntOf(flInput.query.text).n # flInput.user.userId
  /\ flOutput.rows = {[userId |-> flInput.user.userId]}

(***************************************************************************)
(* Properties of scanRepositories when the process dies                    *)
(***************************************************************************)
\* C21: the state file changes only in the step that ends a complete pass,
\* and then to the state of that pass; a pass that dies before saveState
\* leaves the file as it was, also for the repositories it had processed.
C21_SavedOnlyAtTheEnd ==
  [][/\ (stateFile' # stateFile =>
          pc = "repo" /\ todo = <<>> /\ pc' = "idle" /\ stateFile' = state)
     /\ (crash'.count # crash.count => stateFile' = stateFile)]_vars

\* a pass died with a cursor in memory that the state file does not hold
C21_Witness ==
  /\ crash.count > 0
  /\ crash.mem.lastCommitHashes # crash.file.lastCommitHashes
  /\ stateFile = crash.file

\* C22: the pass that follows a crash in the middle of a batch of commits
\* starts from the last commit the interrupted batch had processed.
C22_ResumesInsideTheBatch ==
  [][(/\ crash.count > 0
      /\ crash.processed > 0
      /\ passes = crash.passes
      /\ pc = "idle" /\ pc' = "repo")
     => /\ Has(state'.lastCommitHashes, crash.repo)
        /\ state'.lastCommitHashes[crash.repo] = crash.last]_vars

(***************************************************************************)
(* Properties of getUncommittedChanges and getNewCommits, continued        *)
(***************************************************************************)
FingerprintDiffers(r) ==
  /\ ~worktree[r].empty
  /\ ~(Has(state.lastDiffHashes, r) /\ state.lastDiffHashes[r] = hashString(worktree[r]))

\* C23: a visit that finds a non-empty diff whose fingerprint differs from the
\* stored one goes on to the totals, and then stores that fingerprint and the
\* full totals whether or not it emits; it emits one uncommitted record
\* exactly when the clamped delta of the added or of the deleted lines is
\* positive.
C23_SnapshotAlwaysReplaced ==
  [][\A r \in Repos :
        /\ (IsDiffScan(r) /\ FingerprintDiffers(r) =>
              /\ pc' = "summary"
              /\ local'.currentDiffHash = hashString(worktree[r]))
        /\ (IsSummaryScan(r) =>
              /\ Has(state'.lastDiffHashes, r)
              /\ state'.lastDiffHashes[r] = local.currentDiffHash
              /\ Has(state'.lastUncommittedStats, r)
              /\ state'.lastUncommittedStats[r] =
                   [linesAdded |-> worktree[r].ins, linesDeleted |-> worktree[r].del,
                    filesChanged |-> worktree[r].files]
              /\ Len(EmittedNow) <= 1
              /\ (Len(EmittedNow) = 1 <=>
                    \/ ClampedDifference(worktree[r].ins, StoredStat(r, "linesAdded")) > 0
                    \/ ClampedDifference(worktree[r].del, StoredStat(r, "linesDeleted")) > 0)
              /\ \A i \in 1..Len(EmittedNow) : ~EmittedNow[i].isCommitted)]_vars

\* a diff that only lost lines was not reported and is the stored snapshot
C23_Witness ==
  \E r \in Repos :
    /\ pc = "repo"
    /\ audit[r].reverted /\ ~audit[r].uncommitted /\ ~audit[r].sameHash
    /\ Has(state.lastUncommittedStats, r)
    /\ state.lastUncommittedStats[r] = audit[r].obs
    /\ audit[r].obs.linesAdded = MaxLines

\* C24: a visit that finds an empty diff emits no uncommitted record and
\* removes the stored fingerprint and snapshot of the repository; a visit
\* that finds no stored snapshot measures its diff against zero.
C24_EmptyDiffClearsSnapshot ==
  [][\A r \in Repos :
        /\ (IsDiffScan(r) /\ worktree[r].empty =>
              /\ pc' = "repo"
              /\ todo' = Tail(todo)
              /\ allChanges' = allChanges
              /\ ~Has(state'.lastDiffHashes, r)
              /\ ~Has(state'.lastUncommittedStats, r))
        /\ (IsDiffScan(r) /\ ~Has(state.lastUncommittedStats, r) /\ pc' = "summary" =>
              local'.lastStats = ZeroStats)
        /\ (IsSummaryScan(r) /\ local.lastStats = ZeroStats =>
              \A i \in 1..Len(EmittedNow) :
                /\ EmittedNow[i].linesAdded = worktree[r].ins
                /\ EmittedNow[i].linesDeleted = worktree[r].del)]_vars

\* an empty diff removed a stored snapshot
C24_Witness ==
  \E r \in Repos :
    /\ pc = "repo"
    /\ audit[r].reverted /\ ~audit[r].sameHash /\ ~audit[r].uncommitted
    /\ audit[r].obs = ZeroStats
    /\ worktree[r].empty
    /\ ~Has(state.lastUncommittedStats, r)
    /\ ~Has(state.lastDiffHashes, r)

\* the commits the step examines, oldest first
Batch(r) == Reverse(gitLog(r, logOptions(r, state)))
NewestCommit(r) == Last(history[r])

ReportableSince(r, w) ==
  LET Recent(c) == ChangesFile(c) /\ c.time >= now - w
  IN SelectSeq(history[r], Recent)

EmitsExactly(commits) ==
  /\ Len(EmittedNow) = Len(commits)
  /\ \A i \in 1..Len(EmittedNow) :
       EmittedNow[i].isCommitted /\ EmittedNow[i].commitHash = commits[i].hash

\* C26: a scan without a stored cursor reports exactly the file-changing
\* commits of the last hour, a scan whose stored cursor no longer resolves
\* exactly those of the last 24 hours; both complete and go on to the working
\* tree of the repository.
C26_BoundedWindowFallback ==
  [][\A r \in Repos : IsCommitScan(r) /\ ~CursorResolves(r) =>
        /\ EmitsExactly(ReportableSince(r, IF Has(state.lastCommitHashes, r)
                                             THEN StaleWindowHours
                                             ELSE FirstScanWindowHours))
        /\ pc' = "diff"
        /\ todo' = todo]_vars

\* a scan with a stale cursor reported the commit of the last 24 hours and
\* not the older one
C26_Witness ==
  \E r \in Repos :
    /\ pc = "diff"
    /\ audit[r].seen /\ ~audit[r].resolved /\ audit[r].before > 0
    /\ audit[r].committed = 1
    /\ \E i \in 1..Len(history[r]) :
         ChangesFile(history[r][i]) /\ history[r][i].time < now - StaleWindowHours

(***************************************************************************)
(* Properties of updateWorkHour, continued                                 *)
(***************************************************************************)
\* C27: no write makes the codeChanges or the webActivities counter of a
\* bucket smaller than it was.
C27_CountersNeverDecrease ==
  [][\A key \in DOMAIN workHours :
        /\ key \in DOMAIN workHours'
        /\ workHours'[key].codeChanges >= workHours[key].codeChanges
        /\ workHours'[key].webActivities >= workHours[key].webActivities]_vars

\* C28: every updateWorkHour call completes without error, also when two
\* calls for a key without a bucket run concurrently (the store holds one
\* bucket per key).
C28_ConcurrentCreatesSucceed ==
  \A i \in Started : calls[i].pc # "failed"

\* the step in which call i writes and returns
IsWrite(i) == calls[i].pc = "write" /\ calls'[i].pc = "done"

\* C29: a successful call on an existing bucket adds count to the counter of
\* its kind, sets hasActivity, and leaves the other counter, isOvertime and
\* every other bucket as they were; on a new key it creates the bucket with
\* count in the counter of its kind and 0 in the other.
C29_UpdateAddsCount ==
  [][\A i \in 1..MaxCalls : IsWrite(i) =>
        LET key == KeyOf(calls[i].recordedAt)
            code == IF calls[i].type = "code" THEN calls[i].count ELSE 0
            web == IF calls[i].type = "web" THEN calls[i].count ELSE 0
        IN /\ Has(workHours', key)
           /\ workHours'[key].hasActivity
           /\ \A other \in DOMAIN workHours \ {key} :
                Has(workHours', other) /\ workHours'[other] = workHours[other]
           /\ IF Has(workHours, key)
                THEN /\ workHours'[key].codeChanges = workHours[key].codeChanges + code
                     /\ workHours'[key].webActivities = workHours[key].webActivities + web
                     /\ workHours'[key].isOvertime = workHours[key].isOvertime
                ELSE /\ workHours'[key].codeChanges = code
                     /\ workHours'[key].webActivities = web]_vars

(***************************************************************************)
(* Properties of calculateOvertimeStats                                    *)
(***************************************************************************)
\* C30: for start <= end, dailyOvertime has an entry for exactly the days
\* from the day of start to the day of end, those without overtime with the
\* value 0, and overtimeByHour has an entry for exactly the hours 0..23.
C30_EveryDayAndHourPresent ==
  otOutput.done /\ otInput.startDate <= otInput.endDate =>
    /\ DOMAIN otOutput.stats.dailyOvertime =
         {d \in 0..(MaxOtDay + 1) : DayOf(otInput.startDate) <= d /\ d <= DayOf(otInput.endDate)}
    /\ \A d \in DOMAIN otOutput.stats.dailyOvertime :
         otOutput.stats.dailyOvertime[d] =
           Cardinality({i \in 1..Len(otInput.rows) :
                          /\ otInput.rows[i].date = d
                          /\ otInput.rows[i].hasActivity /\ otInput.rows[i].isOvertime})
    /\ DOMAIN otOutput.stats.overtimeByHour = 0..23

\* start at noon, end at midnight of a later day, no overtime on the last day
C30_Witness ==
  /\ otOutput.done
  /\ otInput.startDate = 720
  /\ otInput.endDate = MaxOtDay * 1440
  /\ Has(otOutput.stats.dailyOvertime, MaxOtDay)
  /\ otOutput.stats.dailyOvertime[MaxOtDay] = 0
  /\ otOutput.stats.totalOvertimeHours = 1

\* the sum of the values of a map
RECURSIVE SumOfMap(_)
SumOfMap(m) ==
  IF DOMAIN m = {} THEN 0
  ELSE LET k == CHOOSE x \in DOMAIN m : TRUE
       IN m[k] + SumOfMap([x \in DOMAIN m \ {k} |-> m[x]])

\* the rows of the call that count: hasActivity and isOvertime
OtCounted == {i \in 1..Len(otInput.rows) :
                otInput.rows[i].hasActivity /\ otInput.rows[i].isOvertime}
OtCountedWeekend == {i \in OtCounted : DayOfWeek(otInput.rows[i].date * 1440) \in {0, 6}}

\* every counted row has an entry of dailyOvertime, i.e. lies in the range
OtRowsInRange ==
  \A i \in OtCounted :
    /\ otInput.startDate <= otInput.endDate
    /\ DayOf(otInput.startDate) <= otInput.rows[i].date
    /\ otInput.rows[i].date <= DayOf(otInput.endDate)

OtTotalsAgree ==
  /\ otOutput.stats.totalOvertimeHours = Cardinality(OtCounted)
  /\ otOutput.stats.totalOvertimeHours =
       otOutput.stats.weekdayOvertimeHours + otOutput.stats.weekendOvertimeHours
  /\ otOutput.stats.weekendOvertimeHours = Cardinality(OtCountedWeekend)
  /\ SumOfMap(otOutput.stats.overtimeByHour) = otOutput.stats.totalOvertimeHours

\* C31 as stated: for every bucket list and date range the total, the
\* weekday + weekend sum, the sum of overtimeByHour, the sum of dailyOvertime
\* and the number of counted buckets are equal, weekend meaning Saturday or
\* Sunday.
C31_AllTotalsAgree ==
  otOutput.done =>
    /\ OtTotalsAgree
    /\ SumOfMap(otOutput.stats.dailyOvertime) = otOutput.stats.totalOvertimeHours

\* C31 amended: the total, the weekday + weekend sum, the sum of
\* overtimeByHour and the number of counted buckets are always equal; the sum
\* of dailyOvertime equals them when every counted bucket's date lies between
\* the days of start and end.
C31_TotalsAgreeInRange ==
  otOutput.done =>
    /\ OtTotalsAgree
    /\ OtRowsInRange =>
         SumOfMap(otOutput.stats.dailyOvertime) = otOutput.stats.totalOvertimeHours

\* a weekday and a weekend bucket, both inside the range
C31_Witness ==
  /\ otOutput.done
  /\ OtRowsInRange
  /\ otOutput.stats.weekdayOvertimeHours = 1
  /\ otOutput.stats.weekendOvertimeHours = 1
  /\ SumOfMap(otOutput.stats.dailyOvertime) = 2

(***************************************************************************)
(* Properties of isOvertimeHour, continued                                 *)
(***************************************************************************)
\* C32: for a user with no stored configuration isOvertimeHour classifies
\* every date and hour as for work 09:00-18:00, lunch 12:00-14:00 with
\* weekends as overtime: Saturday and Sunday true; Monday to Friday false
\* from 12h to 13h, true before 9h and from 18h on, false otherwise.
C32_NoConfigMeansDefaults ==
  clsOutput.done /\ ~clsInput.cfg.present =>
    clsOutput.value =
      (IF clsInput.date \in Weekend THEN TRUE
       ELSE IF clsInput.hour \in 12..13 THEN FALSE
       ELSE clsInput.hour \notin 9..17)

\* a weekday, 18h, no configuration: overtime
C32_Witness ==
  /\ clsOutput.done /\ clsOutput.value
  /\ ~clsInput.cfg.present
  /\ clsInput.date \notin Weekend
  /\ clsInput.hour = 18

(***************************************************************************)
(* Properties of runScan, continued                                        *)
(***************************************************************************)
\* the calls of runScan that begin in this step
Beginning == {i \in 1..MaxRuns : runs[i].pc = "free" /\ runs'[i].pc # "free"}

\* C33: a scan tick with an empty list of watch paths is a no-op: the call
\* of runScan is over at once without records to upload and without an
\* error, nothing is sent, and the state file is unchanged.
C33_NoWatchPathsNoOp ==
  [][watchPaths = <<>> =>
       \A i \in Beginning :
         /\ runs'[i].pc = "done"
         /\ runs'[i].results = <<>>
         /\ runs'[i].failed = "no"
         /\ sent' = sent
         /\ stateFile' = stateFile
         /\ alive']_vars

\* the third tick found no watch paths after an earlier pass had saved a
\* cursor and its record had been sent
C33_Witness ==
  /\ watchPaths = <<>>
  /\ \A i \in 1..MaxRuns : runs[i].pc = "done"
  /\ stateFile # EmptyState /\ stateFile # OldStateFile
  /\ sent # <<>>

(***************************************************************************)
(* Properties of scanRepositories over several repositories                *)
(***************************************************************************)
\* what a ScannerState holds under the key of one repository
EntriesOf(st, q) ==
  [f \in StateFields |-> IF Has(st[f], q) THEN <<st[f][q]>> ELSE <<>>]

\* the records of one repository, in their order
RECURSIVE RecordsOfRepo(_, _)
RecordsOfRepo(q, changes) ==
  IF changes = <<>> THEN <<>>
  ELSE IF Head(changes)._repoPath = q
         THEN <<Head(changes)>> \o RecordsOfRepo(q, Tail(changes))
         ELSE RecordsOfRepo(q, Tail(changes))

\* a step of the loop leaves the entries of every repository but the one
\* being processed as they are
OtherEntriesUnchanged ==
  pc # "idle" /\ todo # <<>> =>
    \A q \in Repos \ {Head(todo)} : EntriesOf(state', q) = EntriesOf(state, q)

\* a pass from the saved state gives the same final state and the same
\* records of every repository in every order
OrderIndependent ==
  \A one, other \in Orderings(Watched(watchPaths)) :
    LET a == VisitAll(one, <<>>, loadState(stateFile))
        b == VisitAll(other, <<>>, loadState(stateFile))
    IN /\ a.state = b.state
       /\ Len(a.changes) = Len(b.changes)
       /\ \A q \in Repos : RecordsOfRepo(q, a.changes) = RecordsOfRepo(q, b.changes)

\* C34: processing one repository changes only the state entries keyed by
\* its path, and the records and the final state of a pass do not depend on
\* the order in which the repositories are processed.
C34_RepositoriesAreIndependent ==
  [][OtherEntriesUnchanged]_vars /\ []OrderIndependent

\* a pass that visited b before a, both with a cursor and a snapshot saved
\* by an earlier pass, and emitted a record for each
C34_Witness ==
  /\ pc = "repo" /\ todo = <<>>
  /\ passes = 2
  /\ Len(allChanges) >= 2
  /\ allChanges[1]._repoPath = <<"w", "b">>
  /\ allChanges[Len(allChanges)]._repoPath = <<"w", "a">>
  /\ \A q \in Watched(watchPaths) :
       Has(stateFile.lastCommitHashes, q) /\ Has(stateFile.lastDiffHashes, q)

\* C35: the state is saved before a record of the pass is uploaded, and a
\* record whose upload fails is not kept or retried: no later scan emits it
\* again, so no commit is emitted by two calls of runScan and none is
\* uploaded after the call that emitted it has given it up.
C35_EmittedAtMostOnce ==
  /\ \A i \in StartedRuns : runs[i].pc = "upload" => runs[i].state = EmptyState
  /\ \A i \in StartedRuns : CommitsOf(runs[i].results) \subseteq runs[i].emitted
  /\ \A i, j \in StartedRuns : i # j => runs[i].emitted \cap runs[j].emitted = {}

(***************************************************************************)
(* Properties of getNewCommits when git show fails                         *)
(***************************************************************************)
\* the step is a call of getNewCommits for the repository r
IsSkipScan(r) == pc = "repo" /\ todo # <<>> /\ Head(todo) = r /\ pc' = "diff"

\* the batch the call processes, oldest first, and the commits that failed
SkipBatch(r) == Reverse(gitLog(r, logOptions(r, state)))
Succeeded(r) == {n \in 1..Len(SkipBatch(r)) : SkipBatch(r)[n].hash \notin audit'[r].bad}

\* the commits of the records the call added to allChanges
NewlyEmitted ==
  {allChanges'[k].commitHash : k \in (Len(allChanges) + 1)..Len(allChanges')}

\* no failed commit is emitted; the cursor is the last commit of the batch
\* that succeeded, and is unchanged when none did
SkipsFailedCommits(r) ==
  /\ NewlyEmitted \cap audit'[r].bad = {}
  /\ IF Succeeded(r) = {}
       THEN state'.lastCommitHashes = state.lastCommitHashes
       ELSE /\ Has(state'.lastCommitHashes, r)
            /\ state'.lastCommitHashes[r] =
                 SkipBatch(r)[CHOOSE n \in Succeeded(r) : \A m \in Succeeded(r) : m <= n].hash

\* C36 as stated: a failed commit does not advance lastCommitHash, a later
\* commit of the batch that succeeds advances it past the failed one, and
\* the failed commit is never emitted by a later scan.
C36_FailedCommitNeverEmitted ==
  [][\A r \in Repos : IsSkipScan(r) =>
       /\ SkipsFailedCommits(r)
       /\ NewlyEmitted \cap passedOver.all = {}]_vars

\* C36 amended: as above, but the failed commit is not emitted by a later
\* scan until a scan finds that the stored cursor does not resolve and
\* falls back to the 24-hour window.
C36_FailedCommitSkippedWhileCursorResolves ==
  [][\A r \in Repos : IsSkipScan(r) =>
       /\ SkipsFailedCommits(r)
       /\ ~FallsBack(r, state) => NewlyEmitted \cap passedOver.live = {}]_vars

\* commit 1 failed in a batch whose later commit moved the cursor, a later
\* commit was made, and a later pass from the cursor emitted it alone
C36_Witness ==
  /\ 1 \in passedOver.live
  /\ pc = "diff"
  /\ audit[Head(todo)].resolved
  /\ audit[Head(todo)].bad = {}
  /\ Len(allChanges) = 1
  /\ allChanges[1].commitHash = 3

(***************************************************************************)
(* Properties of the extension's queue and of POST /web/batch              *)
(***************************************************************************)
\* C37: a queued web activity is stored by the collector at most once,
\* whatever the outcome of its batch uploads.
C37_StoredAtMostOnce == \A a \in DOMAIN webRows : webRows[a] <= 1

\* the invocations of flushActivities whose request ends in this step
Returning == {i \in 1..MaxFlushes : flushes[i].pc = "fetch" /\ flushes'[i].pc = "done"}

\* C38: after a network error or a status other than 401 and 403 the queue
\* is the failed batch in its order followed by what was queued meanwhile,
\* cut to the limit; after 401 or 403 the batch is discarded; after a
\* success none of its activities is in the queue.
C38_FailedBatchBackAtHead ==
  [][\A i \in Returning :
       LET batch == flushes[i].activities
           whole == batch \o activityQueue
           kept == IF Len(whole) < QueueLimit THEN Len(whole) ELSE QueueLimit
       IN /\ flushes'[i].status \in {"error", "threw"} =>
               activityQueue' = [k \in 1..kept |-> whole[k]]
          /\ flushes'[i].status = "denied" =>
               /\ activityQueue' = activityQueue
               /\ ActivityIds(batch) \cap ActivityIds(activityQueue') = {}
          /\ flushes'[i].status = "ok" =>
               ActivityIds(batch) \cap ActivityIds(activityQueue') = {}]_vars

\* the first batch failed after more activities were queued than the limit
\* leaves room for: it is back at the head and the last activity was cut off
C38_Witness ==
  /\ flushes[1].pc = "done" /\ flushes[1].status = "error"
  /\ \A i \in 2..MaxFlushes : flushes[i].pc = "free"
  /\ Len(activityQueue) = QueueLimit
  /\ activityQueue[1] = 1
  /\ queued \notin ActivityIds(activityQueue)

InFlight == {i \in 1..MaxFlushes : flushes[i].pc = "fetch"}

\* C39: no activity is in two batches that are in flight at the same time,
\* and an activity of a batch that was answered with success is neither in
\* the queue nor in a batch in flight again.
C39_NoActivityUploadedTwice ==
  /\ \A i, j \in InFlight :
       i # j => ActivityIds(flushes[i].activities) \cap ActivityIds(flushes[j].activities) = {}
  /\ \A i \in InFlight : ActivityIds(flushes[i].activities) \cap acked = {}
  /\ ActivityIds(activityQueue) \cap acked = {}

\* the first batch was acknowledged while the second request, with what was
\* queued during the first, is still in flight
C39_Witness ==
  /\ acked = {1, 2}
  /\ flushes[1].status = "ok"
  /\ flushes[2].pc = "fetch"
  /\ flushes[2].activities = <<3>>
  /\ flushes[2].created = {3}

(***************************************************************************)
(* Properties of a repository that two watch paths lead to                 *)
(***************************************************************************)
\* the pass is at a repository that it has visited before
Revisit ==
  /\ todo # <<>>
  /\ CountIn(Head(todo), todo) < CountIn(Head(todo), ReposOf(watchPaths))

\* C40: a repository that two watch paths lead to is processed twice in a
\* pass, and the second processing emits no ChangeRecord.
C40_SecondVisitEmitsNothing == [][Revisit => allChanges' = allChanges]_vars

\* the repository is as the first processing saw it: no commit since, and
\* the working tree of its last observation
AsFirstSeen(r) ==
  /\ ~dirty[r]
  /\ ObservedStats(worktree[r]) = audit[r].obs

\* C40 (amended): the second processing emits no ChangeRecord unless a
\* commit was made or the working tree changed since the first.
C40_SecondVisitOfSameRepositoryEmitsNothing ==
  [][Revisit /\ AsFirstSeen(Head(todo)) => allChanges' = allChanges]_vars

\* the end of a pass whose first visit of w/a emitted a commit and an
\* uncommitted record and whose second visit added nothing
C40_Witness ==
  /\ pc = "repo"
  /\ todo = <<>>
  /\ CountIn(<<"w", "a">>, ReposOf(watchPaths)) = 2
  /\ Len(allChanges) = 2
  /\ \A i \in 1..2 : allChanges[i]._repoPath = <<"w", "a">>
  /\ allChanges[1].isCommitted /\ ~allChanges[2].isCommitted
  /\ AsFirstSeen(<<"w", "a">>)

====
